---------------------------- MODULE Spec2Model ----------------------------
(***************************************************************************)
(* State-machine model of FieldCtrl (src/src/FieldCtrl.ts, lines 1-673):   *)
(* one field with its value, counters, message sources, overrides,         *)
(* validation config, and the validate calls whose asynchronous checks     *)
(* are still in flight.                                                    *)
(*                                                                         *)
(* Conventions.  A nullable JavaScript value is a sequence of length 0     *)
(* (null / undefined / a hole of a sparse array) or of length 1 (the       *)
(* value).  An absent optional string property is the empty string.        *)
(* Array index i of the source is index i + 1 here.                        *)
(***************************************************************************)
EXTENDS Integers, Sequences, FiniteSets, TLC

\* ------------------------------------------------------------------ bounds

\* touched / changed are kept within 0 .. MaxCount by the guards.
MaxCount == 2
\* Number of validate calls whose asynchronous checks may be in flight at once.
MaxCalls == 1
\* EntityCtrl instances created
MaxEntities == 3
\* validate calls in flight at once, where calls overlap
MaxOverlap == 2

\* ------------------------------------------------------------ basic values

Null == << >>
Some(x) == << x >>
IsNull(m) == Len(m) = 0
Get(m) == m[1]

\* JavaScript values a field may hold: kind tags the type, str / num the payload.
JsUndefined == [kind |-> "undefined", str |-> "", num |-> 0]
JsNull == [kind |-> "null", str |-> "", num |-> 0]
JsString(s) == [kind |-> "string", str |-> s, num |-> 0]
JsNumber(n) == [kind |-> "number", str |-> "", num |-> n]

Values == {JsUndefined, JsNull, JsString(""), JsString("a"), JsNumber(0), JsNumber(1)}

\* FieldMessage: {message, type}.
Msg(text, type) == [message |-> text, type |-> type]

\* VALIDATION_DEFAULTS.requiredValidate
requiredValidate(v) ==
    /\ v.kind # "undefined"
    /\ v.kind # "null"
    /\ ~(v.kind = "string" /\ v.str = "")
    /\ ~(v.kind = "number" /\ v.num = 0)

\* VALIDATION_DEFAULTS.requiredMessage
DefaultRequiredMessage == "Required field"

\* VALIDATION_DEFAULTS.validateOn
DefaultValidateOn == "demand"


\* ------------------------------------------------------- validation config

\* FieldValidationRule.  validate names the check function:
\*   ""                 no validate function
\*   "syncTrue"/"syncFalse"/"syncThrow"      synchronous, fixed outcome / throws
\*   "requiredValidate"                      synchronous, VALIDATION_DEFAULTS.requiredValidate
\*   "asyncTrue"/"asyncFalse"/"asyncReject"  returns a promise that resolves / rejects
\*   "asyncRequiredValidate"                 returns a promise of requiredValidate(value at call)
Rule(validate, message, type, typeIfPassed, validateOn) ==
    [validate |-> validate, message |-> message, type |-> type,
     typeIfPassed |-> typeIfPassed, validateOn |-> validateOn]

NoRule == Rule("", "", "", "", "")

\* FieldRequired: boolean | string | rule object (or the property absent).
ReqAbsent == [kind |-> "absent", text |-> "", rule |-> NoRule]
ReqBool(b) == [kind |-> IF b THEN "true" ELSE "false", text |-> "", rule |-> NoRule]
ReqString(s) == [kind |-> "string", text |-> s, rule |-> NoRule]
ReqRule(r) == [kind |-> "rule", text |-> "", rule |-> r]

\* FieldValidation: {required?, rules?, validateOn?, requiredValidate?}.
Validation(required, rules, validateOn, reqValidate) ==
    [required |-> required, rules |-> rules, validateOn |-> validateOn,
     requiredValidate |-> reqValidate]

\* holdValidation: boolean | ValidationEventType[]
HoldBool(b) == [all |-> b, list |-> Null]
HoldList(events) == [all |-> FALSE, list |-> Some(events)]

IsAsync(check) ==
    check \in {"asyncTrue", "asyncFalse", "asyncReject", "asyncRequiredValidate"}

\* What the call rule.validate(this) does: it returns a boolean, throws, or
\* returns a promise that resolves to a boolean or rejects; "absent" is a rule
\* without a validate function, which is not called.
callCheck(check, v) ==
    CASE check = "syncTrue" -> [how |-> "returns", value |-> TRUE]
      [] check = "syncFalse" -> [how |-> "returns", value |-> FALSE]
      [] check = "requiredValidate" -> [how |-> "returns", value |-> requiredValidate(v)]
      [] check = "syncThrow" -> [how |-> "throws", value |-> FALSE]
      [] check = "asyncTrue" -> [how |-> "resolves", value |-> TRUE]
      [] check = "asyncFalse" -> [how |-> "resolves", value |-> FALSE]
      [] check = "asyncRequiredValidate" ->
            [how |-> "resolves", value |-> requiredValidate(v)]
      [] check = "asyncReject" -> [how |-> "rejects", value |-> FALSE]
      [] OTHER -> [how |-> "absent", value |-> FALSE]

\* Mutant: a check that throws or rejects counts as passed.
CheckOutcome_FailureCountsAsPassed(check, v) ==
    LET c == callCheck(check, v)
    IN  CASE c.how \in {"returns", "resolves"} -> c.value
          [] c.how \in {"throws", "rejects"} -> TRUE
          [] OTHER -> FALSE

\* The boolean processPassed receives for a check: the value returned or
\* resolved; false after a throw (the catch leaves passedMaybePromise false),
\* after a rejection (.catch(() => false)) and without a validate function.
CheckOutcome(check, v) ==
    LET c == callCheck(check, v)
    IN  CASE c.how \in {"returns", "resolves"} -> c.value
          [] c.how \in {"throws", "rejects"} -> FALSE
          [] OTHER -> FALSE

\* shallowEqual(stored, message) of utils.js: field-by-field equality of two
\* messages; a missing stored message equals nothing.
shallowEqual(stored, message) ==
    /\ ~IsNull(stored)
    /\ Get(stored).message = message.message
    /\ Get(stored).type = message.type

\* everyTruthy(bools) of utils.js: the logical AND of a list (true when empty).
everyTruthy(bools) == \A i \in DOMAIN bools : bools[i]

\* ----------------------------------------------------------- sparse arrays

\* rulesMessages[index]: undefined beyond the length or at a hole.
At(arr, i) == IF i <= Len(arr) THEN arr[i] ELSE Null

\* rulesMessages[index] = message: extends the array with holes as needed.
SetAt(arr, i, m) ==
    [k \in 1 .. (IF i > Len(arr) THEN i ELSE Len(arr)) |->
        IF k = i THEN Some(m) ELSE At(arr, k)]

\* delete rulesMessages[index]: leaves a hole, keeps the length.
DeleteAt(arr, i) == [k \in 1 .. Len(arr) |-> IF k = i THEN Null ELSE arr[k]]

\* -------------------------------------------------------- listener dispatch

\* Object.is(current, prev) of _triggerListeners.  Numbers, booleans and values
\* compare by content; messages is an array and compares by identity: it is the
\* array of the snapshot only if the operation in progress has created no new
\* array (f.created) and its content is that of the snapshot.
sameAsPrev(f, param, prev) ==
    IF param = "messages" THEN ~f.created /\ f.messages = prev
    ELSE f[param] = prev

\* The value _triggerListeners returns: the param changed, or it is 'any'.
triggerResult(f, param, prev) == param = "any" \/ ~sameAsPrev(f, param, prev)

\* Mutant: only holdListeners === true holds the listeners of a param.
holdParamListeners_OnlyTrue(hold, param) == hold.all

\* holdParamListeners of _triggerListeners
holdParamListeners(hold, param) ==
    \/ hold.all
    \/ (~IsNull(hold.list) /\ param \in Get(hold.list))

\* The calls one dispatch makes: every listener of the param, a Set in
\* insertion order.
RECURSIVE listenerCalls(_, _)
listenerCalls(items, param) ==
    IF items = << >> THEN << >>
    ELSE << [listener |-> Head(items), param |-> param] >>
         \o listenerCalls(Tail(items), param)

\* listener(this, param, prev): what a listener called now reads from the field.
Snapshot(f) ==
    [value |-> f.value, touched |-> f.touched, changed |-> f.changed,
     error |-> f.error, warning |-> f.warning, messages |-> f.messages]

\* Mutant: the listeners are called whether or not the param changed.
triggerListeners_IgnoresPrev(f, param, prev) ==
    IF f.listeners[param].kind = "none" THEN f
    ELSE IF holdParamListeners(f.holdListeners, param) THEN f
    ELSE [f EXCEPT !.notified = @ \o listenerCalls(f.listeners[param].items, param),
                   !.seen = @ \o [k \in DOMAIN f.listeners[param].items |-> Snapshot(f)]]

\* _triggerListeners(param, prev): f.notified collects the listener calls of the
\* operation in progress, f.seen what each call finds in the field.
triggerListeners(f, param, prev) ==
    IF ~triggerResult(f, param, prev) THEN f
    ELSE IF f.listeners[param].kind = "none" THEN f
    ELSE IF holdParamListeners(f.holdListeners, param) THEN f
    ELSE [f EXCEPT !.notified = @ \o listenerCalls(f.listeners[param].items, param),
                   !.seen = @ \o [k \in DOMAIN f.listeners[param].items |-> Snapshot(f)]]

\* Lines 303-310 of _updateMessages: prev is the field as _updateMessages found
\* it, f the field with the flags and messages rebuilt.
notifyUpdated(prev, f, skipListeners) ==
    IF skipListeners THEN f
    ELSE LET f1 == triggerListeners(f, "error", prev.error)
             f2 == triggerListeners(f1, "warning", prev.warning)
             f3 == triggerListeners(f2, "messages", prev.messages)
         IN  IF \/ triggerResult(f, "error", prev.error)
                \/ triggerResult(f, "warning", prev.warning)
                \/ triggerResult(f, "messages", prev.messages)
             THEN triggerListeners(f3, "any", Null)
             ELSE f3

\* -------------------------------------------------------- message composer

\* Mutant: the flags follow the message types even when an override is set.
processInternalMessage_IgnoresOverride(f, message, only) ==
    [f EXCEPT
        !.messages = IF only = ""
                        THEN Some(IF IsNull(@) THEN << message >> ELSE Append(Get(@), message))
                        ELSE @,
        !.error = IF only # "onlyWarning" THEN (@ \/ message.type = "error") ELSE @,
        !.warning = IF only # "onlyError" THEN (@ \/ message.type = "warning") ELSE @]

\* processInternalMessage of _updateMessages; only is "", "onlyError" or "onlyWarning".
processInternalMessage(f, message, only) ==
    [f EXCEPT
        !.messages = IF only = ""
                        THEN Some(IF IsNull(@) THEN << message >> ELSE Append(Get(@), message))
                        ELSE @,
        !.error = IF only # "onlyWarning"
                     THEN IF IsNull(f.errorOverride)
                             THEN (@ \/ message.type = "error") ELSE Get(f.errorOverride)
                     ELSE @,
        !.warning = IF only # "onlyError"
                       THEN IF IsNull(f.warningOverride)
                               THEN (@ \/ message.type = "warning") ELSE Get(f.warningOverride)
                       ELSE @]

\* One for-of loop of _updateMessages over a list of possibly missing messages.
RECURSIVE processList(_, _, _, _)
processList(f, list, i, only) ==
    IF i > Len(list) THEN f
    ELSE processList(IF IsNull(list[i]) THEN f
                     ELSE processInternalMessage(f, Get(list[i]), only),
                     list, i + 1, only)

\* Mutant: the custom messages are processed before the rule messages.
updateMessages_CustomBeforeRules(f, only, skipListeners) ==
    LET start == [f EXCEPT
                    !.messages = IF only = "" THEN Null ELSE @,
                    !.error = IF only # "onlyWarning"
                                 THEN (IF IsNull(f.errorOverride) THEN FALSE
                                       ELSE Get(f.errorOverride))
                                 ELSE @,
                    !.warning = IF only # "onlyError"
                                   THEN (IF IsNull(f.warningOverride) THEN FALSE
                                         ELSE Get(f.warningOverride))
                                   ELSE @]
        afterRequired == processList(start, << f.requiredMessage >>, 1, only)
        afterCustom == IF IsNull(f.customMessages) THEN afterRequired
                       ELSE processList(afterRequired,
                                        [k \in DOMAIN Get(f.customMessages) |->
                                            Some(Get(f.customMessages)[k])],
                                        1, only)
        afterRules == IF IsNull(f.rulesMessages) THEN afterCustom
                      ELSE processList(afterCustom, Get(f.rulesMessages), 1, only)
        rebuilt == [afterRules EXCEPT
                        !.created = IF only = "" THEN ~IsNull(afterRules.messages) ELSE @]
    IN  notifyUpdated(f, rebuilt, skipListeners)

\* _updateMessages(only, skipListeners): rebuilds messages / error / warning from
\* the three sources, then notifies the listeners of what changed.
updateMessages(f, only, skipListeners) ==
    LET start == [f EXCEPT
                    !.messages = IF only = "" THEN Null ELSE @,
                    !.error = IF only # "onlyWarning"
                                 THEN (IF IsNull(f.errorOverride) THEN FALSE
                                       ELSE Get(f.errorOverride))
                                 ELSE @,
                    !.warning = IF only # "onlyError"
                                   THEN (IF IsNull(f.warningOverride) THEN FALSE
                                         ELSE Get(f.warningOverride))
                                   ELSE @]
        afterRequired == processList(start, << f.requiredMessage >>, 1, only)
        afterRules == IF IsNull(f.rulesMessages) THEN afterRequired
                      ELSE processList(afterRequired, Get(f.rulesMessages), 1, only)
        afterCustom == IF IsNull(f.customMessages) THEN afterRules
                       ELSE processList(afterRules,
                                        [k \in DOMAIN Get(f.customMessages) |->
                                            Some(Get(f.customMessages)[k])],
                                        1, only)
        rebuilt == [afterCustom EXCEPT
                        !.created = IF only = "" THEN ~IsNull(afterCustom.messages) ELSE @]
    IN  notifyUpdated(f, rebuilt, skipListeners)

\* -------------------------------------------------------- validation engine

\* What an operation hands back: the field after it, the value it returns
\* ("none", "true", "false", "promise") and the validate call it left in flight.
Outcome(f, ret, call) == [f |-> f, ret |-> ret, call |-> call]

BoolRet(b) == IF b THEN "true" ELSE "false"

\* _getValidationDefault('validateOn')
getValidationDefaultValidateOn(f) ==
    IF ~IsNull(f.parentOptions) /\ Get(f.parentOptions).validateOn # ""
        THEN Get(f.parentOptions).validateOn ELSE DefaultValidateOn

\* _getValidationDefault('requiredValidate')
getValidationDefaultRequiredValidate(f) ==
    IF ~IsNull(f.parentOptions) /\ Get(f.parentOptions).requiredValidate # ""
        THEN Get(f.parentOptions).requiredValidate ELSE "requiredValidate"

\* _getValidationDefault('requiredMessage')
getValidationDefaultRequiredMessage(f) ==
    IF ~IsNull(f.parentOptions) /\ Get(f.parentOptions).requiredMessage # ""
        THEN Get(f.parentOptions).requiredMessage ELSE DefaultRequiredMessage

\* Mutant: only holdValidation === true holds a validation.
holdForSure_IgnoresList(hold, eventType) == hold.all

\* holdForSure of _validate; eventType "" is an omitted argument.
holdForSure(hold, eventType) ==
    \/ hold.all
    \/ /\ ~IsNull(hold.list)
       /\ eventType # ""
       /\ eventType \in Get(hold.list)

\* ruleValidateOn of validateRule
ruleValidateOn(f, rule) ==
    IF rule.validateOn # "" THEN rule.validateOn
    ELSE IF Get(f.validation).validateOn # "" THEN Get(f.validation).validateOn
    ELSE getValidationDefaultValidateOn(f)

\* Mutant: event 'touch' does not run the rules triggered by 'change'.
shouldValidate_ExactEventOnly(f, rule, eventType) ==
    IF eventType # ""
        THEN ruleValidateOn(f, rule) = eventType
        ELSE IF ~IsNull(f.holdValidation.list)
                THEN ruleValidateOn(f, rule) \notin Get(f.holdValidation.list)
                ELSE TRUE

\* shouldValidate of validateRule
shouldValidate(f, rule, eventType) ==
    IF eventType # ""
        THEN \/ ruleValidateOn(f, rule) = eventType
             \/ (eventType = "touch" /\ ruleValidateOn(f, rule) = "change")
        ELSE IF ~IsNull(f.holdValidation.list)
                THEN ruleValidateOn(f, rule) \notin Get(f.holdValidation.list)
                ELSE TRUE

\* Mutant: a passing check with no typeIfPassed leaves the slot as it was.
processPassed_KeepsOnPass(f, attached, slot, rule, passed) ==
    LET msgType == IF passed THEN rule.typeIfPassed
                   ELSE IF rule.type # "" THEN rule.type ELSE "error"
        message == Msg(rule.message, msgType)
    IN  IF msgType # ""
        THEN IF slot = 0
             THEN IF ~shallowEqual(f.requiredMessage, message)
                  THEN [f |-> [f EXCEPT !.requiredMessage = Some(message)], need |-> TRUE]
                  ELSE [f |-> f, need |-> FALSE]
             ELSE IF attached /\ ~shallowEqual(At(Get(f.rulesMessages), slot), message)
                  THEN [f |-> [f EXCEPT !.rulesMessages =
                                            Some(SetAt(Get(@), slot, message))],
                        need |-> TRUE]
                  ELSE [f |-> f, need |-> FALSE]
        ELSE [f |-> f, need |-> FALSE]

\* Mutant: every check that ran raises needUpdate.
processPassed_AlwaysNeedsUpdate(f, attached, slot, rule, passed) ==
    LET msgType == IF passed THEN rule.typeIfPassed
                   ELSE IF rule.type # "" THEN rule.type ELSE "error"
        message == Msg(rule.message, msgType)
    IN  IF msgType # ""
        THEN IF slot = 0
             THEN [f |-> [f EXCEPT !.requiredMessage = Some(message)], need |-> TRUE]
             ELSE IF attached
                  THEN [f |-> [f EXCEPT !.rulesMessages =
                                            Some(SetAt(Get(@), slot, message))],
                        need |-> TRUE]
                  ELSE [f |-> f, need |-> TRUE]
        ELSE IF slot = 0
             THEN [f |-> [f EXCEPT !.requiredMessage = Null], need |-> TRUE]
             ELSE IF attached
                  THEN [f |-> [f EXCEPT !.rulesMessages = Some(DeleteAt(Get(@), slot))],
                        need |-> TRUE]
                  ELSE [f |-> f, need |-> TRUE]

\* processPassed of validateRule.  slot 0 is 'required', slot i is rules[i - 1].
\* attached: the rulesMessages array the call captured is still the field's
\* array (a write to a dropped array does not reach the field).
\* Yields the field and whether needUpdate was raised.
processPassed(f, attached, slot, rule, passed) ==
    LET msgType == IF passed THEN rule.typeIfPassed
                   ELSE IF rule.type # "" THEN rule.type ELSE "error"
        message == Msg(rule.message, msgType)
    IN  IF msgType # ""
        THEN IF slot = 0
             THEN IF ~shallowEqual(f.requiredMessage, message)
                  THEN [f |-> [f EXCEPT !.requiredMessage = Some(message)], need |-> TRUE]
                  ELSE [f |-> f, need |-> FALSE]
             ELSE IF attached /\ ~shallowEqual(At(Get(f.rulesMessages), slot), message)
                  THEN [f |-> [f EXCEPT !.rulesMessages =
                                            Some(SetAt(Get(@), slot, message))],
                        need |-> TRUE]
                  ELSE [f |-> f, need |-> FALSE]
        ELSE IF slot = 0
             THEN IF ~IsNull(f.requiredMessage)
                  THEN [f |-> [f EXCEPT !.requiredMessage = Null], need |-> TRUE]
                  ELSE [f |-> f, need |-> FALSE]
             ELSE IF attached /\ ~IsNull(At(Get(f.rulesMessages), slot))
                  THEN [f |-> [f EXCEPT !.rulesMessages = Some(DeleteAt(Get(@), slot))],
                        need |-> TRUE]
                  ELSE [f |-> f, need |-> FALSE]

\* Mutant: the result of a check replaces the results collected so far.
validateRule_LastResultOnly(acc, rule, slot, eventType) ==
    IF ~shouldValidate(acc.f, rule, eventType) THEN acc
    ELSE LET passed == CheckOutcome(rule.validate, acc.f.value)
         IN  IF IsAsync(rule.validate)
             THEN [acc EXCEPT !.promisified = TRUE,
                              !.pending = @ \cup {[slot |-> slot, rule |-> rule,
                                                   passed |-> passed]},
                              !.results = << passed >>]
             ELSE LET r == processPassed(acc.f, TRUE, slot, rule, passed)
                  IN  [acc EXCEPT !.f = r.f,
                                  !.needUpdate = @ \/ r.need,
                                  !.results = << passed >>]

\* Mutant: a rule that is not run for the event loses its stored message.
validateRule_ClearsSkipped(acc, rule, slot, eventType) ==
    IF ~shouldValidate(acc.f, rule, eventType)
    THEN LET r == processPassed(acc.f, TRUE, slot, [rule EXCEPT !.typeIfPassed = ""], TRUE)
         IN  [acc EXCEPT !.f = r.f, !.needUpdate = @ \/ r.need]
    ELSE LET passed == CheckOutcome(rule.validate, acc.f.value)
         IN  IF IsAsync(rule.validate)
             THEN [acc EXCEPT !.promisified = TRUE,
                              !.pending = @ \cup {[slot |-> slot, rule |-> rule,
                                                   passed |-> passed]},
                              !.results = Append(@, passed)]
             ELSE LET r == processPassed(acc.f, TRUE, slot, rule, passed)
                  IN  [acc EXCEPT !.f = r.f,
                                  !.needUpdate = @ \/ r.need,
                                  !.results = Append(@, passed)]

\* validateRule: acc carries the field, needUpdate, promisified, the results
\* (in rule order; a promise is listed by the boolean it settles to) and the
\* asynchronous checks started.
validateRule(acc, rule, slot, eventType) ==
    IF ~shouldValidate(acc.f, rule, eventType) THEN acc
    ELSE LET passed == CheckOutcome(rule.validate, acc.f.value)
         IN  IF IsAsync(rule.validate)
             THEN [acc EXCEPT !.promisified = TRUE,
                              !.pending = @ \cup {[slot |-> slot, rule |-> rule,
                                                   passed |-> passed]},
                              !.results = Append(@, passed)]
             ELSE LET r == processPassed(acc.f, TRUE, slot, rule, passed)
                  IN  [acc EXCEPT !.f = r.f,
                                  !.needUpdate = @ \/ r.need,
                                  !.results = Append(@, passed)]

\* The rule the required check runs with (lines 630-641).
requiredRule(f) ==
    LET validation == Get(f.validation)
        required == validation.required
    IN  IF required.kind = "rule" THEN required.rule
        ELSE Rule(IF validation.requiredValidate # "" THEN validation.requiredValidate
                  ELSE getValidationDefaultRequiredValidate(f),
                  IF required.kind = "string" THEN required.text
                  ELSE getValidationDefaultRequiredMessage(f),
                  "error", "", "")

\* if (validation.required): true, a non-empty string or an object.
requiredIsTruthy(required) ==
    \/ required.kind \in {"true", "rule"}
    \/ (required.kind = "string" /\ required.text # "")

\* The for loop over validation.rules.
RECURSIVE validateRules(_, _, _, _)
validateRules(acc, rules, i, eventType) ==
    IF i > Len(rules) THEN acc
    ELSE validateRules(validateRule(acc, rules[i], i, eventType), rules, i + 1, eventType)

\* _validate(eventType, skipSyncListeners)
validateInternal(f, eventType, skipSyncListeners) ==
    IF IsNull(f.validation) THEN Outcome(f, "true", Null)
    ELSE IF holdForSure(f.holdValidation, eventType) THEN Outcome(f, "true", Null)
    ELSE
    LET validation == Get(f.validation)
        f0 == [f EXCEPT !.rulesMessages = IF IsNull(@) THEN Some(<< >>) ELSE @]
        acc0 == [f |-> f0, needUpdate |-> FALSE, promisified |-> FALSE,
                 results |-> << >>, pending |-> {}]
        acc1 == IF requiredIsTruthy(validation.required)
                   THEN validateRule(acc0, requiredRule(f0), 0, eventType)
                   ELSE acc0
        acc2 == validateRules(acc1, validation.rules, 1, eventType)
    IN  IF acc2.promisified
        THEN Outcome(acc2.f, "promise",
                     Some([pending |-> acc2.pending, results |-> acc2.results,
                           needUpdate |-> acc2.needUpdate, attached |-> TRUE]))
        ELSE Outcome(IF acc2.needUpdate
                        THEN updateMessages(acc2.f, "", skipSyncListeners) ELSE acc2.f,
                     BoolRet(everyTruthy(acc2.results)), Null)

\* validate(eventType)
validate(f, eventType) == validateInternal(f, eventType, FALSE)

\* -------------------------------------------------------- field operations

\* Mutant: the value setter ends without calling the 'any' listeners.
notifyAssigned_WithoutAny(prev, f) ==
    LET f1 == triggerListeners(f, "value", prev.value)
        f2 == triggerListeners(f1, "changed", prev.changed)
        f3 == triggerListeners(f2, "error", prev.error)
        f4 == triggerListeners(f3, "warning", prev.warning)
    IN  triggerListeners(f4, "messages", prev.messages)

\* Lines 110-115 of the value setter: prev is the field as the setter found it.
notifyAssigned(prev, f) ==
    LET f1 == triggerListeners(f, "value", prev.value)
        f2 == triggerListeners(f1, "changed", prev.changed)
        f3 == triggerListeners(f2, "error", prev.error)
        f4 == triggerListeners(f3, "warning", prev.warning)
        f5 == triggerListeners(f4, "messages", prev.messages)
    IN  triggerListeners(f5, "any", Null)

\* Lines 134-140 of touch: prev is the field as touch found it.
notifyTouch(prev, f) ==
    LET f1 == triggerListeners(f, "value", prev.value)
        f2 == triggerListeners(f1, "touched", prev.touched)
        f3 == triggerListeners(f2, "changed", prev.changed)
        f4 == triggerListeners(f3, "error", prev.error)
        f5 == triggerListeners(f4, "warning", prev.warning)
        f6 == triggerListeners(f5, "messages", prev.messages)
    IN  triggerListeners(f6, "any", Null)

\* Lines 455-457 of reset: prev is the field as reset found it.
notifyReset(prev, f) ==
    LET f1 == triggerListeners(f, "value", prev.value)
        f2 == triggerListeners(f1, "touched", prev.touched)
    IN  triggerListeners(f2, "changed", prev.changed)

\* Mutant: the value listeners are called as soon as the value is stored.
setValue_NotifiesValueFirst(f, v) ==
    LET f0 == triggerListeners([f EXCEPT !.value = v], "value", f.value)
        r == validateInternal([f0 EXCEPT !.changed = @ + 1], "change", TRUE)
        f2 == triggerListeners(r.f, "changed", f.changed)
        f3 == triggerListeners(f2, "error", f.error)
        f4 == triggerListeners(f3, "warning", f.warning)
        f5 == triggerListeners(f4, "messages", f.messages)
    IN  Outcome(triggerListeners(f5, "any", Null), "none", r.call)

\* Mutant: assigning the value the field already holds is not counted.
setValue_SkipsSameValue(f, v) ==
    LET r == validateInternal([f EXCEPT !.value = v,
                                        !.changed = IF v = f.value THEN @ ELSE @ + 1],
                              "change", TRUE)
    IN  Outcome(notifyAssigned(f, r.f), "none", r.call)

\* set value(v)
setValue(f, v) ==
    LET r == validateInternal([f EXCEPT !.value = v, !.changed = @ + 1], "change", TRUE)
    IN  Outcome(notifyAssigned(f, r.f), "none", r.call)

\* Mutant: touch counts the touch but not the change.
touch_NoChange(f, v) ==
    LET r == validateInternal([f EXCEPT !.value = v, !.touched = @ + 1], "touch", TRUE)
    IN  Outcome(notifyTouch(f, r.f), "none", r.call)

\* Mutant: touch validates and counts but does not store the value.
touch_KeepsValue(f, v) ==
    LET r == validateInternal([f EXCEPT !.touched = @ + 1, !.changed = @ + 1],
                              "touch", TRUE)
    IN  Outcome(notifyTouch(f, r.f), "none", r.call)

\* touch(value)
touch(f, v) ==
    LET r == validateInternal([f EXCEPT !.value = v, !.touched = @ + 1, !.changed = @ + 1],
                              "touch", TRUE)
    IN  Outcome(notifyTouch(f, r.f), "none", r.call)

\* Mutant: assigning touched also calls the 'any' listeners.
setTouched_NotifiesAny(f, t) ==
    Outcome(triggerListeners(triggerListeners([f EXCEPT !.touched = t],
                                              "touched", f.touched),
                             "any", Null),
            "none", Null)

\* set touched(t)
setTouched(f, t) ==
    Outcome(triggerListeners([f EXCEPT !.touched = t], "touched", f.touched), "none", Null)

\* set changed(c)
setChanged(f, c) ==
    Outcome(triggerListeners([f EXCEPT !.changed = c], "changed", f.changed), "none", Null)

\* Mutant: unsetting the override leaves error at the pinned value.
setErrorOverride_KeepsPinned(f, o) ==
    IF f.errorOverride = o THEN Outcome(f, "none", Null)
    ELSE IF IsNull(o)
         THEN Outcome([f EXCEPT !.errorOverride = o], "none", Null)
         ELSE Outcome(triggerListeners([f EXCEPT !.errorOverride = o, !.error = Get(o)],
                                       "error", f.error),
                      "none", Null)

\* set errorOverride(errorOverride)
setErrorOverride(f, o) ==
    IF f.errorOverride = o THEN Outcome(f, "none", Null)
    ELSE IF IsNull(o)
         THEN Outcome(updateMessages([f EXCEPT !.errorOverride = o], "onlyError", FALSE),
                      "none", Null)
         ELSE Outcome(triggerListeners([f EXCEPT !.errorOverride = o, !.error = Get(o)],
                                       "error", f.error),
                      "none", Null)

\* set warningOverride(warningOverride)
setWarningOverride(f, o) ==
    IF f.warningOverride = o THEN Outcome(f, "none", Null)
    ELSE IF IsNull(o)
         THEN Outcome(updateMessages([f EXCEPT !.warningOverride = o], "onlyWarning", FALSE),
                      "none", Null)
         ELSE Outcome(triggerListeners([f EXCEPT !.warningOverride = o, !.warning = Get(o)],
                                       "warning", f.warning),
                      "none", Null)

\* set customMessages(messages)
setCustomMessages(f, msgs) ==
    Outcome(updateMessages([f EXCEPT !.customMessages = msgs], "", FALSE), "none", Null)

\* Mutant: clearValidated drops the custom messages as well.
clearValidated_DropsCustom(f) ==
    IF IsNull(f.requiredMessage) /\ IsNull(f.rulesMessages) THEN Outcome(f, "none", Null)
    ELSE Outcome(updateMessages([f EXCEPT !.requiredMessage = Null,
                                          !.rulesMessages = Null,
                                          !.customMessages = Null], "", FALSE),
                 "none", Null)

\* clearValidated()
clearValidated(f) ==
    IF IsNull(f.requiredMessage) /\ IsNull(f.rulesMessages) THEN Outcome(f, "none", Null)
    ELSE Outcome(updateMessages([f EXCEPT !.requiredMessage = Null,
                                          !.rulesMessages = Null], "", FALSE),
                 "none", Null)

\* Mutant: clear leaves the overrides in place.
clear_KeepsOverrides(f) ==
    Outcome(updateMessages([f EXCEPT !.requiredMessage = Null,
                                     !.rulesMessages = Null,
                                     !.customMessages = Null], "", FALSE),
            "none", Null)

\* clear()
clear(f) ==
    Outcome(updateMessages([f EXCEPT !.requiredMessage = Null,
                                     !.rulesMessages = Null,
                                     !.customMessages = Null,
                                     !.errorOverride = Null,
                                     !.warningOverride = Null], "", FALSE),
            "none", Null)

\* Mutant: reset clears only the validation result.
reset_ClearsValidatedOnly(f) ==
    LET cleared == clearValidated([f EXCEPT !.value = f.defaultValue,
                                            !.touched = 0, !.changed = 0]).f
    IN  Outcome(notifyReset(f, cleared), "none", Null)

\* reset()
reset(f) ==
    LET cleared == clear([f EXCEPT !.value = f.defaultValue,
                                   !.touched = 0, !.changed = 0]).f
    IN  Outcome(notifyReset(f, cleared), "none", Null)

\* Mutant: a changed required keeps the message of the earlier required check.
setRequired_KeepsMessage(f, r) ==
    IF r.kind = "false" /\ IsNull(f.validation) THEN Outcome(f, "none", Null)
    ELSE LET validation == IF IsNull(f.validation)
                              THEN Validation(ReqAbsent, << >>, "", "")
                              ELSE Get(f.validation)
         IN  Outcome([f EXCEPT !.validation = Some([validation EXCEPT !.required = r])],
                     "none", Null)

\* set required(r)
setRequired(f, r) ==
    IF r.kind = "false" /\ IsNull(f.validation) THEN Outcome(f, "none", Null)
    ELSE LET validation == IF IsNull(f.validation)
                              THEN Validation(ReqAbsent, << >>, "", "")
                              ELSE Get(f.validation)
             f1 == [f EXCEPT !.validation = Some(validation)]
         IN  IF validation.required = r THEN Outcome(f1, "none", Null)
             ELSE LET f2 == [f1 EXCEPT !.validation = Some([validation EXCEPT !.required = r])]
                  IN  IF ~IsNull(f2.requiredMessage)
                      THEN Outcome(updateMessages([f2 EXCEPT !.requiredMessage = Null],
                                                  "", FALSE),
                                   "none", Null)
                      ELSE Outcome(f2, "none", Null)

\* _cloneValidation(validation): a copy with every rule copied; values here
\* carry no identity, so the copy is the value itself.
cloneValidation(validation) == validation

\* The objects a copy made by _cloneValidation has in common with its source:
\* {...validation} makes a new top-level object, the rules array is rebuilt
\* from {...rule} copies, and required, when it is a rule object, is carried
\* over as the same object.
cloneShares(validation) ==
    IF IsNull(validation) THEN {}
    ELSE IF Get(validation).required.kind = "rule" THEN {"required"} ELSE {}

\* set validation(validation)
setValidation(f, validation) ==
    clearValidated([f EXCEPT !.validation = cloneValidation(validation)])

\* ---------------------------------------------------------------- listeners

ListenerParams == {"any", "value", "touched", "changed", "error", "warning", "messages"}

\* FieldParamListenersInternal: null | one listener | Set of listeners
\* (a Set keeps insertion order: items lists it).
NoListeners == [kind |-> "none", items |-> << >>]
PlainListener(l) == [kind |-> "plain", items |-> << l >>]
ListenerSet(items) == [kind |-> "set", items |-> items]

InSeq(x, seq) == \E i \in DOMAIN seq : seq[i] = x

RECURSIVE Without(_, _)
Without(seq, x) ==
    IF seq = << >> THEN << >>
    ELSE IF Head(seq) = x THEN Without(Tail(seq), x)
    ELSE << Head(seq) >> \o Without(Tail(seq), x)

\* Mutant: a Set does not ignore a listener it already holds.
addListener_AddsAgain(f, param, l) ==
    LET ls == f.listeners[param]
        new == CASE ls.kind = "none" -> PlainListener(l)
                 [] ls.kind = "set" -> ListenerSet(Append(ls.items, l))
                 [] OTHER -> ListenerSet(Append(ls.items, l))
    IN  Outcome([f EXCEPT !.listeners[param] = new], "none", Null)

\* Mutant: the Set made of a plain listener and a new one lists the new one first.
addListener_NewBeforePlain(f, param, l) ==
    LET ls == f.listeners[param]
        new == CASE ls.kind = "none" -> PlainListener(l)
                 [] ls.kind = "set" ->
                        IF InSeq(l, ls.items) THEN ls ELSE ListenerSet(Append(ls.items, l))
                 [] OTHER ->
                        IF ls.items[1] = l THEN ListenerSet(ls.items)
                        ELSE ListenerSet(<< l >> \o ls.items)
    IN  Outcome([f EXCEPT !.listeners[param] = new], "none", Null)

\* addListener(param, listener)
addListener(f, param, l) ==
    LET ls == f.listeners[param]
        new == CASE ls.kind = "none" -> PlainListener(l)
                 [] ls.kind = "set" ->
                        IF InSeq(l, ls.items) THEN ls ELSE ListenerSet(Append(ls.items, l))
                 [] OTHER ->
                        IF ls.items[1] = l THEN ListenerSet(ls.items)
                        ELSE ListenerSet(Append(ls.items, l))
    IN  Outcome([f EXCEPT !.listeners[param] = new], "none", Null)

\* removeListener(param, listener)
removeListener(f, param, l) ==
    LET ls == f.listeners[param]
    IN  CASE ls.kind = "none" -> Outcome(f, "false", Null)
          [] ls.kind = "set" ->
                LET deleted == InSeq(l, ls.items)
                    left == Without(ls.items, l)
                    new == IF deleted /\ Len(left) < 2
                              THEN IF Len(left) = 1 THEN PlainListener(left[1])
                                   ELSE NoListeners
                              ELSE ListenerSet(left)
                IN  Outcome([f EXCEPT !.listeners[param] = new], BoolRet(deleted), Null)
          [] OTHER ->
                IF ls.items[1] = l
                THEN Outcome([f EXCEPT !.listeners[param] = NoListeners], "true", Null)
                ELSE Outcome(f, "false", Null)

\* --------------------------------------------- asynchronous check settlement

\* Mutant: a settlement leaves alone a slot that already holds a message.
settleCheck_FirstWriteStays(f, call, check) ==
    LET stored == IF check.slot = 0 THEN f.requiredMessage
                  ELSE IF IsNull(f.rulesMessages) THEN Null
                  ELSE At(Get(f.rulesMessages), check.slot)
    IN  IF ~IsNull(stored) THEN f
        ELSE processPassed(f, call.attached, check.slot, check.rule, check.passed).f

\* passedMaybePromise.catch(() => false).then(processPassed): one asynchronous
\* check of an in-flight call settles and writes its slot.
settleCheck(f, call, check) ==
    processPassed(f, call.attached, check.slot, check.rule, check.passed).f

\* Promise.all(results).then(processBools): processBools was chosen when
\* _validate returned, from needUpdate as the synchronous checks left it.
processBools(f, call) ==
    Outcome(IF call.needUpdate THEN updateMessages(f, "", FALSE) ELSE f,
            IF everyTruthy(call.results) THEN "resolved true" ELSE "resolved false",
            Null)

\* -------------------------------------------------------------------- state

VARIABLES
    fc,     \* the FieldCtrl instance: its public and protected fields
    calls,  \* validate calls whose asynchronous checks have not all settled
    ret,    \* what the last operation returned, or what the last promise resolved to
    notified, \* the listener calls the last operation made, in order
    caller, \* the config object the calling code holds, and what it shares with the field's
    ents,   \* the EntityCtrl instances created so far, in creation order
    entityCache, \* the module's entityCache: null or a Map from key to entity
    out,    \* what the last EntityCtrl operation returned
    inflight \* the promises of the entities' fields: field validate calls not yet
            \* resolved, and the promise of an EntityCtrl.validate awaiting them

vars == << fc, calls, ret, notified, caller, ents, entityCache, out, inflight >>

\* new FieldCtrl(field, parent, defaultValue)
NewField(defaultValue) ==
    [value |-> defaultValue,
     defaultValue |-> defaultValue,
     holdValidation |-> HoldBool(FALSE),
     holdListeners |-> HoldBool(FALSE),
     touched |-> 0,
     changed |-> 0,
     error |-> FALSE,
     warning |-> FALSE,
     messages |-> Null,
     validation |-> Null,
     requiredMessage |-> Null,
     rulesMessages |-> Null,
     customMessages |-> Null,
     errorOverride |-> Null,
     warningOverride |-> Null,
     parentOptions |-> Null,
     listeners |-> [p \in ListenerParams |-> NoListeners],
     \* bookkeeping of the operation in progress, empty between operations:
     \* the listener calls made so far, what each found in the field, and
     \* whether a new messages array was built
     notified |-> << >>,
     seen |-> << >>,
     created |-> FALSE]

\* parent.validationOptions: an absent option is the empty string.
ValidationOptions(validateOn, reqValidate, requiredMessage) ==
    [validateOn |-> validateOn, requiredValidate |-> reqValidate,
     requiredMessage |-> requiredMessage]

\* new FieldCtrl(field, parent, defaultValue) with a parent entity that has
\* validationOptions.
NewFieldOfParent(options, defaultValue) ==
    [NewField(defaultValue) EXCEPT !.parentOptions = Some(options)]

\* The field as an operation leaves it for the next one.
AtRest(f) == [f EXCEPT !.notified = << >>, !.seen = << >>, !.created = FALSE]

\* const rulesMessages = (this._rulesMessages = this._rulesMessages || []):
\* a call in flight writes rule slots into the array it captured.  Once an
\* operation has left the field without an array (clear, clearValidated), no
\* call in flight holds the field's array any more.
SyncCalls(f, cs) ==
    IF IsNull(f.rulesMessages)
        THEN [i \in DOMAIN cs |-> [cs[i] EXCEPT !.attached = FALSE]]
        ELSE cs

\* What an operation that returned r leaves: the field, the value returned, the
\* listener calls made and the validate call started, if any.
Returns(r) ==
    /\ fc' = AtRest(r.f)
    /\ ret' = r.ret
    /\ notified' = r.f.notified
    /\ calls' = SyncCalls(r.f, calls) \o r.call

\* The field after an operation that returned r.
Act(r) ==
    /\ Len(calls) + Len(r.call) <= MaxCalls
    /\ Returns(r)

\* A step of the field alone touches no entity and no object of the caller.
FieldOnly == UNCHANGED << caller, ents, entityCache, out, inflight >>

\* A step of the entities and the cache touches no standalone field.
EntityOnly == UNCHANGED << fc, calls, ret, notified, caller, inflight >>

\* A step of the entities that starts or settles promises of their fields.
EntityAsync == UNCHANGED << fc, calls, ret, notified, caller, entityCache >>

\* No promise of an entity or of its fields is pending.
NoInflight == [calls |-> << >>, promise |-> Null]

\* The state after an operation that returned r.
Apply(r) == Act(r) /\ FieldOnly

\* The calling code holds no config object.
NoCaller == [config |-> Null, shares |-> {}]

\* No EntityCtrl operation has returned yet.
NoOut == [op |-> "none"]

\* ------------------------------------------------------------------ entities

\* if (key): undefined, null, '' and 0 are falsy.
truthy(v) ==
    \/ (v.kind = "number" /\ v.num # 0)
    \/ (v.kind = "string" /\ v.str # "")

\* A Map is the sequence of its entries [key, val] in insertion order.
mapHas(m, k) == \E i \in DOMAIN m : m[i].key = k

mapGet(m, k) ==
    IF mapHas(m, k) THEN Some((CHOOSE i \in DOMAIN m : m[i].key = k))
    ELSE Null

\* Map.get: the value under k, or undefined.
mapValue(m, k) == IF mapHas(m, k) THEN Some(m[Get(mapGet(m, k))].val) ELSE Null

\* Map.set: a key already present keeps its place.
mapSet(m, k, v) ==
    IF mapHas(m, k) THEN [i \in DOMAIN m |-> IF m[i].key = k THEN [key |-> k, val |-> v]
                                             ELSE m[i]]
    ELSE Append(m, [key |-> k, val |-> v])

\* Map.delete
mapDelete(m, k) == SelectSeq(m, LAMBDA x : x.key # k)

\* [...map.keys()]
mapKeys(m) == [i \in DOMAIN m |-> m[i].key]

\* new EntityCtrl(key): the instance
NewEntity(key) == [key |-> key, fields |-> << >>, validationOptions |-> Null]

\* new EntityCtrl(key): entityCache after the constructor of the entity at
\* index e of the instances.
registerEntity(cache, key, e) ==
    IF truthy(key) THEN Some(mapSet(IF IsNull(cache) THEN << >> ELSE Get(cache), key, e))
    ELSE cache

\* EntityCtrl.get(key): the index of the instance, or undefined.
staticGet(cache, key) == IF IsNull(cache) THEN Null ELSE mapValue(Get(cache), key)

\* EntityCtrl.keys()
staticKeys(cache) == IF IsNull(cache) THEN << >> ELSE mapKeys(Get(cache))

\* EntityCtrl.clearCache()
clearCache(cache) == Null

\* destroy() of the instance ent: the instance, entityCache and the value
\* returned.
destroy(ent, cache) ==
    LET cleared == [ent EXCEPT !.fields = << >>]
    IN  IF IsNull(cache) \/ ~truthy(ent.key)
        THEN [ent |-> cleared, cache |-> cache, ret |-> FALSE]
        ELSE LET deleted == mapHas(Get(cache), ent.key)
                 m == mapDelete(Get(cache), ent.key)
             IN  [ent |-> cleared,
                  cache |-> IF Len(m) = 0 THEN Null ELSE Some(m),
                  ret |-> deleted]

\* createField(field, defaultValue): a new FieldCtrl under field, in the place
\* of the one there was.
createField(ent, name, defaultValue) ==
    [ent EXCEPT !.fields = mapSet(@, name, NewField(defaultValue))]

\* Mutant: field creates the FieldCtrl whatever strict is.
field_AlwaysCreates(ent, name, strict) ==
    IF mapHas(ent.fields, name) THEN [ent |-> ent, fc |-> mapValue(ent.fields, name)]
    ELSE LET created == createField(ent, name, JsUndefined)
         IN  [ent |-> created, fc |-> mapValue(created.fields, name)]

\* field(field, strict): the entity after the call and the FieldCtrl returned,
\* undefined when there is none and strict is true.
field(ent, name, strict) ==
    IF mapHas(ent.fields, name) THEN [ent |-> ent, fc |-> mapValue(ent.fields, name)]
    ELSE IF ~strict
         THEN LET created == createField(ent, name, JsUndefined)
              IN  [ent |-> created, fc |-> mapValue(created.fields, name)]
         ELSE [ent |-> ent, fc |-> Null]

\* deleteField(field): the entity and whether there was a FieldCtrl.
deleteField(ent, name) ==
    [ent |-> [ent EXCEPT !.fields = mapDelete(@, name)], ret |-> mapHas(ent.fields, name)]

\* The loop of _getFieldsParam over fields: result[field] = fc[param] for the
\* fields the entity holds.
RECURSIVE getFieldsLoop(_, _, _, _, _)
getFieldsLoop(ent, param, names, i, result) ==
    IF i > Len(names) THEN result
    ELSE getFieldsLoop(ent, param, names, i + 1,
                       IF mapHas(ent.fields, names[i])
                           THEN mapSet(result, names[i],
                                       Get(mapValue(ent.fields, names[i]))[param])
                           ELSE result)

\* _getFieldsParam(param, fields): fields absent means every field held.
getFieldsParam(ent, param, names) ==
    getFieldsLoop(ent, param, IF IsNull(names) THEN mapKeys(ent.fields) ELSE Get(names),
                  1, << >>)

\* fc[param] = v for param 'value' (the value setter) and 'defaultValue' (a
\* plain property).
assignParam(f, param, v) ==
    IF param = "value" THEN AtRest(setValue(f, v).f)
    ELSE [f EXCEPT !.defaultValue = v]

\* _setFieldsParam(param, params, strict): params is the list of the object's
\* own [key, val] entries.
RECURSIVE setFieldsParam(_, _, _, _, _)
setFieldsParam(ent, param, params, strict, i) ==
    IF i > Len(params) THEN ent
    ELSE LET r == field(ent, params[i].key, strict)
         IN  setFieldsParam(IF IsNull(r.fc) THEN r.ent
                            ELSE [r.ent EXCEPT !.fields =
                                     mapSet(@, params[i].key,
                                            assignParam(Get(r.fc), param, params[i].val))],
                            param, params, strict, i + 1)

\* Mutant: touched counts the fields that were touched.
sumFields_CountsFields(fields, param, i, acc) ==
    Cardinality({k \in DOMAIN fields : fields[k].val[param] > 0})

\* The loops of the touched and changed getters: the sum of fc[param] over
\* this._fields.values().
RECURSIVE sumFields(_, _, _, _)
sumFields(fields, param, i, acc) ==
    IF i > Len(fields) THEN acc
    ELSE sumFields(fields, param, i + 1, acc + fields[i].val[param])

\* The loops of the error and warning getters: true at the first field whose
\* fc[param] is true.
RECURSIVE anyField(_, _, _)
anyField(fields, param, i) ==
    IF i > Len(fields) THEN FALSE
    ELSE IF fields[i].val[param] THEN TRUE
    ELSE anyField(fields, param, i + 1)

\* get touched(), get changed(), get error(), get warning()
entityTouched(ent) == sumFields(ent.fields, "touched", 1, 0)

entityChanged(ent) == sumFields(ent.fields, "changed", 1, 0)

entityError(ent) == anyField(ent.fields, "error", 1)

entityWarning(ent) == anyField(ent.fields, "warning", 1)

\* clear(): fc.clear() for each field
entityClear(ent) ==
    [ent EXCEPT !.fields = [i \in DOMAIN @ |-> [@[i] EXCEPT !.val = AtRest(clear(@).f)]]]

\* Mutant: reset() clears the fields without resetting them.
entityReset_OnlyClears(ent) == entityClear(ent)

\* reset(): fc.reset() for each field
entityReset(ent) ==
    [ent EXCEPT !.fields = [i \in DOMAIN @ |-> [@[i] EXCEPT !.val = AtRest(reset(@).f)]]]

\* Mutant: the loop of validate ends at the first key with no field.
RECURSIVE validateFields_StopsAtUnknown(_, _, _, _, _)
validateFields_StopsAtUnknown(ent, names, eventType, i, allResults) ==
    IF i > Len(names) THEN [ent |-> ent, allResults |-> allResults]
    ELSE IF ~mapHas(ent.fields, names[i])
         THEN [ent |-> ent, allResults |-> allResults]
    ELSE LET r == validate(Get(mapValue(ent.fields, names[i])), eventType)
         IN  validateFields_StopsAtUnknown(
                 [ent EXCEPT !.fields = mapSet(@, names[i], AtRest(r.f))],
                 names, eventType, i + 1,
                 Append(allResults, [name |-> names[i], ret |-> r.ret, call |-> r.call]))

\* The loop of EntityCtrl.validate: fc.validate(eventType) for each field held,
\* in the order of the list; allResults lists what each returned, a promise
\* with the call it belongs to.
RECURSIVE validateFields(_, _, _, _, _)
RECURSIVE pushResult(_, _, _, _, _, _)
validateFields(ent, names, eventType, i, allResults) ==
    IF i > Len(names) THEN [ent |-> ent, allResults |-> allResults]
    ELSE IF ~mapHas(ent.fields, names[i])
         THEN validateFields(ent, names, eventType, i + 1, allResults)
    ELSE pushResult(ent, names, eventType, i, allResults,
                    validate(Get(mapValue(ent.fields, names[i])), eventType))

\* allResults.push(passedMaybePromise), the field being as validate left it,
\* and the rest of the loop.
pushResult(ent, names, eventType, i, allResults, r) ==
    validateFields([ent EXCEPT !.fields = mapSet(@, names[i], AtRest(r.f))],
                   names, eventType, i + 1,
                   Append(allResults, [name |-> names[i], ret |-> r.ret, call |-> r.call]))

\* The return statement of EntityCtrl.validate: a boolean, or a promise.
returned(allResults) ==
    IF \E k \in DOMAIN allResults : allResults[k].ret = "promise" THEN "promise"
    ELSE BoolRet(everyTruthy([k \in DOMAIN allResults |-> allResults[k].ret = "true"]))

\* The entity, what the fields returned, and the value returned.
validated(r) == [ent |-> r.ent, allResults |-> r.allResults, ret |-> returned(r.allResults)]

\* EntityCtrl.validate(fields, eventType)
entityValidate(ent, names, eventType) ==
    validated(validateFields(ent,
                             IF IsNull(names) THEN mapKeys(ent.fields) ELSE Get(names),
                             eventType, 1, << >>))

\* What Promise.all(allResults) waits for: each boolean as it is, each promise
\* with the boolean it resolves to.
awaited(allResults) ==
    [k \in DOMAIN allResults |->
        IF allResults[k].ret = "promise"
        THEN [done |-> FALSE, value |-> everyTruthy(Get(allResults[k].call).results)]
        ELSE [done |-> TRUE, value |-> allResults[k].ret = "true"]]

\* The calls of fields the loop started, each with its place in allResults.
startedCalls(e, allResults) ==
    LET started == SelectSeq([k \in DOMAIN allResults |->
                                 [e |-> e, name |-> allResults[k].name,
                                  call |-> allResults[k].call, place |-> k]],
                             LAMBDA x : ~IsNull(x.call))
    IN  [k \in DOMAIN started |-> [started[k] EXCEPT !.call = Get(@)]]

\* ------------------------------------------------------------------- inputs

InfoMsg == Msg("I", "info")
WarnMsg == Msg("W", "warning")
ErrMsg == Msg("E", "error")

OverrideInputs == {Null, Some(TRUE), Some(FALSE)}

CustomMessagesInputs ==
    {Null, Some(<< InfoMsg >>), Some(<< WarnMsg, ErrMsg >>)}

EventTypeInputs == {"", "touch", "change", "demand"}

HoldValidationInputs == {HoldBool(FALSE), HoldBool(TRUE), HoldList({"change"})}

\* {required: true}
CfgRequired == Validation(ReqBool(TRUE), << >>, "", "")
\* {required: true, validateOn: 'change'}
CfgRequiredOnChange == Validation(ReqBool(TRUE), << >>, "change", "")
\* two synchronous rules, the first leaving a message when it passes
CfgSyncRules ==
    Validation(ReqAbsent,
               << Rule("requiredValidate", "R1", "", "success", "change"),
                  Rule("syncFalse", "R2", "warning", "", "demand") >>,
               "", "")
\* one rule whose check is asynchronous and resolves false
CfgAsyncFalse ==
    Validation(ReqAbsent, << Rule("asyncFalse", "A1", "", "", "") >>, "", "")
\* required plus one synchronous rule between two asynchronous ones, all run on change
CfgMixed ==
    Validation(ReqString("Needed"),
               << Rule("asyncRequiredValidate", "A1", "error", "info", ""),
                  Rule("syncThrow", "S2", "warning", "", ""),
                  Rule("asyncFalse", "A3", "warning", "", "") >>,
               "change", "")

\* required and one rule, both run on change: an empty value leaves an error and
\* a warning message, any other value none
CfgNotify ==
    Validation(ReqBool(TRUE),
               << Rule("requiredValidate", "R1", "warning", "", "") >>,
               "change", "")

\* a check that throws (run on demand), a check whose promise rejects (run on
\* touch) and a check that passes (run on demand by default)
CfgThrowing ==
    Validation(ReqAbsent,
               << Rule("syncThrow", "T1", "", "", "demand"),
                  Rule("asyncReject", "T2", "warning", "", "touch"),
                  Rule("syncTrue", "T3", "", "", "") >>,
               "", "")
\* checks that pass or fail with the value: one leaving a message when it
\* passes, an asynchronous one and one run on demand leaving none
CfgPassing ==
    Validation(ReqAbsent,
               << Rule("requiredValidate", "P1", "", "success", "change"),
                  Rule("asyncRequiredValidate", "P2", "warning", "", "change"),
                  Rule("requiredValidate", "P3", "warning", "", "demand") >>,
               "", "")

\* required and four failing rules: one with no validateOn of its own and one
\* for each trigger; validateOn is the config's own validateOn
CfgTriggers(validateOn) ==
    Validation(ReqBool(TRUE),
               << Rule("syncFalse", "D1", "", "", ""),
                  Rule("syncFalse", "D2", "", "", "change"),
                  Rule("syncFalse", "D3", "", "", "touch"),
                  Rule("syncFalse", "D4", "", "", "demand") >>,
               validateOn, "")

TriggerValidationInputs == {Some(CfgTriggers("")), Some(CfgTriggers("touch"))}

TriggerHoldInputs ==
    {HoldBool(FALSE), HoldBool(TRUE), HoldList({"change"}), HoldList({"touch", "demand"})}

\* validationOptions {validateOn: 'change'} of a parent entity
ParentOnChange == ValidationOptions("change", "", "")

ChecksValidationInputs == {Some(CfgThrowing), Some(CfgPassing)}

SyncValidationInputs == {Null, Some(CfgRequiredOnChange), Some(CfgSyncRules)}

AsyncValidationInputs == {Some(CfgAsyncFalse), Some(CfgMixed)}

RequiredInputs == {ReqBool(FALSE), ReqBool(TRUE)}

\* false, true and a message of its own
RequiredSetterInputs == {ReqBool(FALSE), ReqBool(TRUE), ReqString("Needed")}

\* {rules: [{validate: () => false, message: 'R1', validateOn: 'change'}]}
CfgRulesOnly == Validation(ReqAbsent, << Rule("syncFalse", "R1", "", "", "change") >>, "", "")

\* {required: {validate: requiredValidate, message: 'Needed', validateOn: 'change'},
\*  rules: [{validate: () => false, message: 'R1', validateOn: 'change'}]}
CfgRequiredObject ==
    Validation(ReqRule(Rule("requiredValidate", "Needed", "", "", "change")),
               << Rule("syncFalse", "R1", "", "", "change") >>, "", "")

\* {required: {message: 'Needed', validateOn: 'change'}}: a rule object with no
\* validate function
CfgRequiredNoValidate ==
    Validation(ReqRule(Rule("", "Needed", "", "", "change")), << >>, "", "")

\* {required: {validate: async fc => !!fc.value, message: 'Needed'},
\*  rules: [{validate: async fc => !!fc.value, message: 'A1', typeIfPassed: 'info'}]}
\* run on demand: the outcome of each check is that of the value at the call
CfgOverlap ==
    Validation(ReqRule(Rule("asyncRequiredValidate", "Needed", "", "", "")),
               << Rule("asyncRequiredValidate", "A1", "error", "info", "") >>, "", "")

ConfigInputs == {CfgRequiredObject, CfgRequiredOnChange, CfgRulesOnly}

\* What the calling code changes in the config object it holds:
\*   config.validateOn = 'touch'        config.required = false
\*   config.rules[0].message = 'X'      config.required.message = 'X'
ConfigParts == {"validateOn", "required", "rules[0].message", "required.message"}

\* new EntityCtrl(), new EntityCtrl(0), new EntityCtrl(1), new EntityCtrl('1')
KeyInputs == {JsUndefined, JsNumber(0), JsNumber(1), JsString("1")}

FieldInputs == {"a", "b"}

\* getValues(), getValues(['a']), getValues(['b', 'a'])
FieldListInputs == {Null, Some(<< "a" >>), Some(<< "b", "a" >>)}

\* {a: 1}, {b: 0}, {a: 0, b: 1}
ValuesInputs ==
    {<< [key |-> "a", val |-> JsNumber(1)] >>,
     << [key |-> "b", val |-> JsNumber(0)] >>,
     << [key |-> "a", val |-> JsNumber(0)], [key |-> "b", val |-> JsNumber(1)] >>}

\* The entity the field operations are called on: the first one created.
OwnerInputs == {1}

\* one asynchronous check whose promise resolves to whether the value is present
CfgAsyncValue ==
    Validation(ReqAbsent, << Rule("asyncRequiredValidate", "A1", "", "", "") >>, "", "")

\* validate(), validate(['a']), validate(['c', 'a']), validate(['a', 'c', 'b'])
ValidateListInputs ==
    {Null, Some(<< "a" >>), Some(<< "c", "a" >>), Some(<< "a", "c", "b" >>)}

\* required given as a rule whose check is asynchronous, and one synchronous
\* rule that fails
CfgStale ==
    Validation(ReqRule(Rule("asyncRequiredValidate", "Needed", "", "", "")),
               << Rule("syncFalse", "S1", "warning", "", "") >>, "", "")

HoldListenersInputs == {HoldBool(FALSE), HoldBool(TRUE), HoldList({"value", "error"})}

RegistryListenerInputs == {"l1", "l2", "l3"}

ListenerInputs == {"l1"}
ListenerParamInputs == {"any"}

\* ------------------------------------------------------------------ actions

Init ==
    /\ fc = NewField(JsNumber(1))
    /\ calls = << >>
    /\ ret = "none"
    /\ notified = << >>
    /\ caller = NoCaller
    /\ ents = << >>
    /\ entityCache = Null
    /\ out = NoOut
    /\ inflight = NoInflight

SetValue(v) == fc.changed < MaxCount /\ Apply(setValue(fc, v))

Touch(v) == fc.changed < MaxCount /\ fc.touched < MaxCount /\ Apply(touch(fc, v))

SetTouched(t) == Apply(setTouched(fc, t))

SetChanged(c) == Apply(setChanged(fc, c))

SetErrorOverride(o) == Apply(setErrorOverride(fc, o))

SetWarningOverride(o) == Apply(setWarningOverride(fc, o))

SetCustomMessages(msgs) == Apply(setCustomMessages(fc, msgs))

ClearValidated == Apply(clearValidated(fc))

Clear == Apply(clear(fc))

Reset == Apply(reset(fc))

SetRequired(r) == Apply(setRequired(fc, r))

SetValidation(v) == Apply(setValidation(fc, v))

Validate(eventType) == Apply(validate(fc, eventType))

\* holdValidation is a public property: assigning it changes nothing else.
SetHoldValidation(h) == Apply(Outcome([fc EXCEPT !.holdValidation = h], "none", Null))

\* holdListeners is a public property: assigning it changes nothing else.
SetHoldListeners(h) == Apply(Outcome([fc EXCEPT !.holdListeners = h], "none", Null))

AddListener(param, l) == Apply(addListener(fc, param, l))

RemoveListener(param, l) == Apply(removeListener(fc, param, l))

\* addListener on a param that has no listener yet (the plain-listener branch).
AddFirstListener(param, l) ==
    /\ fc.listeners[param].kind = "none"
    /\ AddListener(param, l)

\* An asynchronous check of call i settles.
Settle(i, check) ==
    /\ check \in calls[i].pending
    /\ fc' = settleCheck(fc, calls[i], check)
    /\ calls' = [calls EXCEPT ![i].pending = @ \ {check}]
    /\ notified' = << >>
    /\ UNCHANGED ret
    /\ FieldOnly

\* All checks of call i have settled: its promise resolves.
Resolve(i) ==
    /\ calls[i].pending = {}
    /\ LET r == processBools(fc, calls[i])
       IN  /\ fc' = AtRest(r.f)
           /\ ret' = r.ret
           /\ notified' = r.f.notified
    /\ calls' = [k \in 1 .. (Len(calls) - 1) |-> IF k < i THEN calls[k] ELSE calls[k + 1]]
    /\ FieldOnly

\* const c = {...}; fc.validation = c: the caller keeps the object it passed.
AssignValidation(c) ==
    /\ Act(setValidation(fc, Some(c)))
    /\ caller' = [config |-> Some(c), shares |-> cloneShares(Some(c))]
    /\ UNCHANGED << ents, entityCache, out, inflight >>

\* const c = fc.validation: the caller keeps the object the getter returned.
ReadValidation ==
    /\ Act(Outcome(fc, "none", Null))
    /\ caller' = [config |-> cloneValidation(fc.validation),
                  shares |-> cloneShares(fc.validation)]
    /\ UNCHANGED << ents, entityCache, out, inflight >>

\* The caller's object after the caller changed part of it.
changedConfig(c, part) ==
    CASE part = "validateOn" -> [c EXCEPT !.validateOn = "touch"]
      [] part = "required" -> [c EXCEPT !.required = ReqBool(FALSE)]
      [] part = "rules[0].message" -> [c EXCEPT !.rules[1].message = "X"]
      [] OTHER -> [c EXCEPT !.required.rule.message = "X"]

\* The caller changes the config object it holds.  The field's config changes
\* with it where the changed object is one the field's config holds too.
ChangeCallerConfig(part) ==
    /\ ~IsNull(caller.config)
    /\ part = "rules[0].message" => Len(Get(caller.config).rules) > 0
    /\ part = "required.message" => Get(caller.config).required.kind = "rule"
    /\ caller' = [config |-> Some(changedConfig(Get(caller.config), part)),
                  shares |-> IF part = "required" THEN caller.shares \ {"required"}
                             ELSE caller.shares]
    /\ fc' = IF part = "required.message" /\ "required" \in caller.shares
                THEN [fc EXCEPT !.validation = Some(changedConfig(Get(@), part))]
                ELSE fc
    /\ ret' = "none"
    /\ notified' = << >>
    /\ UNCHANGED << calls, ents, entityCache, out, inflight >>

\* new EntityCtrl(key)
Create(key) ==
    /\ Len(ents) < MaxEntities
    /\ ents' = Append(ents, NewEntity(key))
    /\ entityCache' = registerEntity(entityCache, key, Len(ents) + 1)
    /\ out' = [op |-> "new", val |-> Len(ents) + 1]
    /\ EntityOnly

\* ents[e].destroy()
Destroy(e) ==
    LET r == destroy(ents[e], entityCache)
    IN  /\ ents' = [ents EXCEPT ![e] = r.ent]
        /\ entityCache' = r.cache
        /\ out' = [op |-> "destroy", val |-> r.ret]
        /\ EntityOnly

\* EntityCtrl.clearCache()
ClearCache ==
    /\ entityCache' = clearCache(entityCache)
    /\ out' = [op |-> "clearCache"]
    /\ UNCHANGED ents
    /\ EntityOnly

\* EntityCtrl.get(key)
GetEntity(key) ==
    /\ out' = [op |-> "get", val |-> staticGet(entityCache, key)]
    /\ UNCHANGED << ents, entityCache >>
    /\ EntityOnly

\* EntityCtrl.keys()
Keys ==
    /\ out' = [op |-> "keys", val |-> staticKeys(entityCache)]
    /\ UNCHANGED << ents, entityCache >>
    /\ EntityOnly

\* ents[e].createField(field, defaultValue)
CreateField(e, name, defaultValue) ==
    /\ ents' = [ents EXCEPT ![e] = createField(@, name, defaultValue)]
    /\ out' = [op |-> "createField"]
    /\ UNCHANGED entityCache
    /\ EntityOnly

\* ents[e].deleteField(field)
DeleteField(e, name) ==
    LET r == deleteField(ents[e], name)
    IN  /\ ents' = [ents EXCEPT ![e] = r.ent]
        /\ out' = [op |-> "deleteField", val |-> r.ret]
        /\ UNCHANGED entityCache
        /\ EntityOnly

\* ents[e].field(field, strict)
Field(e, name, strict) ==
    LET r == field(ents[e], name, strict)
    IN  /\ ents' = [ents EXCEPT ![e] = r.ent]
        /\ out' = [op |-> "field", name |-> name, strict |-> strict, val |-> r.fc]
        /\ UNCHANGED entityCache
        /\ EntityOnly

\* ents[e].getValues(fields) and ents[e].getDefaultValues(fields)
GetFieldsParam(e, param, names) ==
    /\ out' = [op |-> "get", param |-> param, names |-> names,
               val |-> getFieldsParam(ents[e], param, names)]
    /\ UNCHANGED << ents, entityCache >>
    /\ EntityOnly

\* ents[e].setValues(values, strict) and ents[e].setDefaultValues(values, strict)
SetFieldsParam(e, param, params, strict) ==
    /\ \A i \in DOMAIN params :
         mapHas(ents[e].fields, params[i].key)
         => Get(mapValue(ents[e].fields, params[i].key)).changed < MaxCount
    /\ ents' = [ents EXCEPT ![e] = setFieldsParam(@, param, params, strict, 1)]
    /\ out' = [op |-> "set", param |-> param, params |-> params, strict |-> strict,
               unknown |-> {params[i].key : i \in DOMAIN params}
                           \ {ents[e].fields[i].key : i \in DOMAIN ents[e].fields}]
    /\ UNCHANGED entityCache
    /\ EntityOnly

\* The values of one entity's fields: fields created, deleted and looked up,
\* values and default values read and written in bulk.
NextValues ==
    \/ (ents = << >> /\ Create(JsUndefined))
    \/ \E e \in OwnerInputs \cap DOMAIN ents, n \in FieldInputs :
          CreateField(e, n, JsNumber(0))
    \/ \E e \in OwnerInputs \cap DOMAIN ents, n \in FieldInputs : DeleteField(e, n)
    \/ \E e \in OwnerInputs \cap DOMAIN ents, n \in FieldInputs, s \in BOOLEAN :
          Field(e, n, s)
    \/ \E e \in OwnerInputs \cap DOMAIN ents, p \in {"value", "defaultValue"},
          ns \in FieldListInputs : GetFieldsParam(e, p, ns)
    \/ \E e \in OwnerInputs \cap DOMAIN ents, p \in {"value", "defaultValue"},
          vs \in ValuesInputs, s \in BOOLEAN : SetFieldsParam(e, p, vs, s)

SpecValues == Init /\ [][NextValues]_vars

\* A method of the FieldCtrl the entity holds under name, returning r.
FieldCall(e, name, r) ==
    /\ ents' = [ents EXCEPT ![e].fields = mapSet(@, name, AtRest(r.f))]
    /\ out' = [op |-> "field call"]
    /\ UNCHANGED entityCache
    /\ EntityOnly

\* ents[e].field(name, true).touch(v)
TouchField(e, name, v) ==
    /\ mapHas(ents[e].fields, name)
    /\ LET f == Get(mapValue(ents[e].fields, name))
       IN  f.changed < MaxCount /\ f.touched < MaxCount /\ FieldCall(e, name, touch(f, v))

\* ents[e].field(name, true).errorOverride = o
SetFieldErrorOverride(e, name, o) ==
    /\ mapHas(ents[e].fields, name)
    /\ FieldCall(e, name, setErrorOverride(Get(mapValue(ents[e].fields, name)), o))

\* ents[e].field(name, true).warningOverride = o
SetFieldWarningOverride(e, name, o) ==
    /\ mapHas(ents[e].fields, name)
    /\ FieldCall(e, name, setWarningOverride(Get(mapValue(ents[e].fields, name)), o))

\* ents[e].touched, .changed, .error and .warning read one after the other
ReadTotals(e) ==
    /\ out' = [op |-> "totals", touched |-> entityTouched(ents[e]),
               changed |-> entityChanged(ents[e]), error |-> entityError(ents[e]),
               warning |-> entityWarning(ents[e])]
    /\ UNCHANGED << ents, entityCache >>
    /\ EntityOnly

\* ents[e].clear()
ClearEntity(e) ==
    /\ ents' = [ents EXCEPT ![e] = entityClear(@)]
    /\ out' = [op |-> "clear"]
    /\ UNCHANGED entityCache
    /\ EntityOnly

\* ents[e].reset(), with the touched total and the error read before it
ResetEntity(e) ==
    /\ ents' = [ents EXCEPT ![e] = entityReset(@)]
    /\ out' = [op |-> "reset", touched |-> entityTouched(ents[e]),
               error |-> entityError(ents[e])]
    /\ UNCHANGED entityCache
    /\ EntityOnly

\* The totals of one entity: its fields created, deleted, touched, put in error
\* and warning, cleared and reset, and the totals read.
NextTotals ==
    \/ (ents = << >> /\ Create(JsUndefined))
    \/ \E e \in OwnerInputs \cap DOMAIN ents, n \in FieldInputs :
          CreateField(e, n, JsNumber(0))
    \/ \E e \in OwnerInputs \cap DOMAIN ents, n \in FieldInputs : DeleteField(e, n)
    \/ \E e \in OwnerInputs \cap DOMAIN ents, n \in FieldInputs,
          v \in {JsNumber(0), JsNumber(1)} : TouchField(e, n, v)
    \/ \E e \in OwnerInputs \cap DOMAIN ents, n \in FieldInputs,
          o \in {Null, Some(TRUE)} : SetFieldErrorOverride(e, n, o)
    \/ \E e \in OwnerInputs \cap DOMAIN ents, n \in FieldInputs,
          o \in {Null, Some(TRUE)} : SetFieldWarningOverride(e, n, o)
    \/ \E e \in OwnerInputs \cap DOMAIN ents : ReadTotals(e)
    \/ \E e \in OwnerInputs \cap DOMAIN ents : ClearEntity(e)
    \/ \E e \in OwnerInputs \cap DOMAIN ents : ResetEntity(e)

SpecTotals == Init /\ [][NextTotals]_vars

\* An assignment has left the field under a key as f: the promises of its calls
\* in flight no longer write into the array it has dropped.
FieldAssigned(e, name, f) ==
    /\ ents' = [ents EXCEPT ![e].fields = mapSet(@, name, AtRest(f))]
    /\ inflight' = [inflight EXCEPT !.calls =
           [k \in DOMAIN @ |->
               IF @[k].e = e /\ @[k].name = name
               THEN [@[k] EXCEPT !.call = SyncCalls(f, << @ >>)[1]]
               ELSE @[k]]]
    /\ out' = [op |-> "field call"]
    /\ EntityAsync

\* ents[e].field(name, true).validation = c
SetFieldValidation(e, name, c) ==
    /\ mapHas(ents[e].fields, name)
    /\ FieldAssigned(e, name, setValidation(Get(mapValue(ents[e].fields, name)), c).f)

\* What a call of ents[e].validate leaves: the fields, the promises pending
\* and the value returned.
EntityValidated(e, names, r) ==
    /\ IsNull(inflight.promise)
    /\ Len(inflight.calls) + Len(startedCalls(e, r.allResults)) <= MaxOverlap
    /\ ents' = [ents EXCEPT ![e] = r.ent]
    /\ inflight' = [calls |-> inflight.calls \o startedCalls(e, r.allResults),
                    promise |-> IF r.ret = "promise"
                                THEN Some(awaited(r.allResults)) ELSE Null]
    /\ out' = [op |-> "validate", names |-> names, val |-> r.ret]
    /\ EntityAsync

\* ents[e].validate(fields, eventType)
ValidateEntity(e, names, eventType) ==
    EntityValidated(e, names, entityValidate(ents[e], names, eventType))

\* One asynchronous check of a field's call settles.
SettleField(k, check) ==
    /\ check \in inflight.calls[k].call.pending
    /\ LET c == inflight.calls[k]
       IN  ents' = [ents EXCEPT ![c.e].fields =
                       mapSet(@, c.name,
                              settleCheck(Get(mapValue(@, c.name)), c.call, check))]
    /\ inflight' = [inflight EXCEPT !.calls[k].call.pending = @ \ {check}]
    /\ UNCHANGED out
    /\ EntityAsync

\* All checks of a field's call have settled: its promise resolves, and
\* Promise.all of the entity's validate has one promise less to wait for.
ResolveField(k) ==
    LET c == inflight.calls[k]
    IN  /\ c.call.pending = {}
        /\ ents' = [ents EXCEPT ![c.e].fields =
                        mapSet(@, c.name,
                               AtRest(processBools(Get(mapValue(@, c.name)), c.call).f))]
        /\ inflight' = [calls |-> [j \in 1 .. (Len(inflight.calls) - 1) |->
                                      IF j < k THEN inflight.calls[j]
                                      ELSE inflight.calls[j + 1]],
                        promise |-> IF IsNull(inflight.promise) THEN Null
                                    ELSE Some([Get(inflight.promise)
                                                  EXCEPT ![c.place].done = TRUE])]
        /\ UNCHANGED out
        /\ EntityAsync

\* Promise.all(allResults).then(everyTruthy): the promise of validate resolves.
ResolveEntity ==
    /\ ~IsNull(inflight.promise)
    /\ \A k \in DOMAIN Get(inflight.promise) : Get(inflight.promise)[k].done
    /\ out' = [op |-> "validate resolved",
               val |-> IF everyTruthy([k \in DOMAIN Get(inflight.promise) |->
                                          Get(inflight.promise)[k].value])
                       THEN "resolved true" ELSE "resolved false"]
    /\ inflight' = [inflight EXCEPT !.promise = Null]
    /\ UNCHANGED ents
    /\ EntityAsync

\* Validation of one entity's fields: fields with a synchronous required check
\* or an asynchronous check, validated together, by list and by event.
NextEntityValidate ==
    \/ (ents = << >> /\ Create(JsUndefined))
    \/ \E e \in OwnerInputs \cap DOMAIN ents, n \in FieldInputs,
          v \in {JsNumber(0), JsNumber(1)} :
            ~mapHas(ents[e].fields, n) /\ CreateField(e, n, v)
    \/ \E e \in OwnerInputs \cap DOMAIN ents, n \in FieldInputs,
          c \in {CfgRequired, CfgAsyncValue} : SetFieldValidation(e, n, Some(c))
    \/ \E e \in OwnerInputs \cap DOMAIN ents, ns \in ValidateListInputs,
          et \in {"", "change"} : ValidateEntity(e, ns, et)
    \/ \E k \in DOMAIN inflight.calls : \E check \in inflight.calls[k].call.pending :
          SettleField(k, check)
    \/ \E k \in DOMAIN inflight.calls : ResolveField(k)
    \/ ResolveEntity

SpecEntityValidate == Init /\ [][NextEntityValidate]_vars

\* Reset of an entity whose fields differ in default value, were touched,
\* carry overrides or failed a synchronous required check.
NextReset ==
    \/ (ents = << >> /\ Create(JsUndefined))
    \/ \E e \in OwnerInputs \cap DOMAIN ents, n \in FieldInputs,
          v \in {JsNumber(0), JsNumber(1)} :
            ~mapHas(ents[e].fields, n) /\ CreateField(e, n, v)
    \/ \E e \in OwnerInputs \cap DOMAIN ents, n \in FieldInputs :
          SetFieldValidation(e, n, Some(CfgRequired))
    \/ \E e \in OwnerInputs \cap DOMAIN ents, n \in FieldInputs :
          TouchField(e, n, JsNumber(1))
    \/ \E e \in OwnerInputs \cap DOMAIN ents, n \in FieldInputs :
          SetFieldErrorOverride(e, n, Some(TRUE))
    \/ \E e \in OwnerInputs \cap DOMAIN ents, n \in FieldInputs :
          SetFieldWarningOverride(e, n, Some(TRUE))
    \/ \E e \in OwnerInputs \cap DOMAIN ents : ValidateEntity(e, Null, "")
    \/ \E e \in OwnerInputs \cap DOMAIN ents : ResetEntity(e)

SpecReset == Init /\ [][NextReset]_vars

\* Every operation that changes what listeners watch, on a field that has a
\* listener for 'any', for 'touched' and for 'error'.
NextAny ==
    \/ \E v \in {JsNumber(0), JsNumber(1)} : SetValue(v)
    \/ Touch(JsNumber(1))
    \/ \E t \in {0, 1} : SetTouched(t)
    \/ \E c \in {0, 1} : SetChanged(c)
    \/ \E o \in {Null, Some(TRUE)} : SetErrorOverride(o)
    \/ \E o \in {Null, Some(TRUE)} : SetWarningOverride(o)
    \/ \E msgs \in {Null, Some(<< InfoMsg >>)} : SetCustomMessages(msgs)
    \/ Clear
    \/ ClearValidated
    \/ Reset
    \/ SetValidation(Some(CfgNotify))
    \/ \E p \in {"any", "touched", "error"} : AddFirstListener(p, "l1")

SpecAny == Init /\ [][NextAny]_vars

\* Checks in flight when the field is cleared, reset or given a new config.
NextStale ==
    \/ \E v \in {JsNumber(0), JsNumber(1)} : SetValue(v)
    \/ SetValidation(Some(CfgStale))
    \/ Validate("")
    \/ Clear
    \/ ClearValidated
    \/ Reset
    \/ \E i \in DOMAIN calls : \E check \in calls[i].pending : Settle(i, check)
    \/ \E i \in DOMAIN calls : Resolve(i)

SpecStale == Init /\ [][NextStale]_vars

\* Entities and the cache: entities created with and without keys, with keys
\* already taken, destroyed in any order, and the cache read and cleared.
NextCache ==
    \/ \E k \in KeyInputs : Create(k)
    \/ \E e \in DOMAIN ents : Destroy(e)
    \/ ClearCache
    \/ \E k \in KeyInputs \ {JsUndefined} : GetEntity(k)
    \/ Keys
    \/ \E e \in DOMAIN ents : CreateField(e, "a", JsNumber(0))

SpecCache == Init /\ [][NextCache]_vars

\* One field with synchronous checks: value and counter mutation, overrides,
\* custom messages, validation, clearing and listener registration.
Next ==
    \/ \E v \in {JsNumber(0), JsNumber(1)} : SetValue(v)
    \/ \E v \in {JsNumber(0), JsNumber(1)} : Touch(v)
    \/ \E t \in 0 .. MaxCount : SetTouched(t)
    \/ \E c \in 0 .. MaxCount : SetChanged(c)
    \/ \E o \in OverrideInputs : SetErrorOverride(o)
    \/ \E o \in OverrideInputs : SetWarningOverride(o)
    \/ \E msgs \in CustomMessagesInputs : SetCustomMessages(msgs)
    \/ ClearValidated
    \/ Clear
    \/ Reset
    \/ \E v \in SyncValidationInputs : SetValidation(v)
    \/ \E e \in EventTypeInputs : Validate(e)
    \/ \E p \in ListenerParamInputs, l \in ListenerInputs : AddListener(p, l)
    \/ \E p \in ListenerParamInputs, l \in ListenerInputs : RemoveListener(p, l)

Spec == Init /\ [][Next]_vars

\* The required check over every kind of value, with the ways to configure,
\* trigger and hold it.
NextRequired ==
    \/ \E v \in Values : SetValue(v)
    \/ \E v \in Values : Touch(v)
    \/ \E r \in RequiredInputs : SetRequired(r)
    \/ \E v \in {Null, Some(CfgRequired), Some(CfgRequiredOnChange)} : SetValidation(v)
    \/ \E e \in EventTypeInputs : Validate(e)
    \/ \E h \in HoldValidationInputs : SetHoldValidation(h)
    \/ Reset
    \/ \E p \in {"any", "messages"} : AddFirstListener(p, "l1")

SpecRequired == Init /\ [][NextRequired]_vars

\* A field whose checks may be asynchronous: validation, settlement of the
\* checks in any order, and the operations that touch the message sources.
NextAsync ==
    \/ \E v \in {JsNumber(0), JsNumber(1)} : SetValue(v)
    \/ \E o \in OverrideInputs : SetErrorOverride(o)
    \/ \E msgs \in CustomMessagesInputs : SetCustomMessages(msgs)
    \/ ClearValidated
    \/ Reset
    \/ \E v \in AsyncValidationInputs : SetValidation(v)
    \/ \E e \in {"", "change"} : Validate(e)
    \/ \E i \in DOMAIN calls : \E check \in calls[i].pending : Settle(i, check)
    \/ \E i \in DOMAIN calls : Resolve(i)

SpecAsync == Init /\ [][NextAsync]_vars

\* A field with an empty value, alone or under a parent entity whose
\* validationOptions set validateOn.
InitTriggers ==
    /\ fc \in {NewField(JsNumber(0)), NewFieldOfParent(ParentOnChange, JsNumber(0))}
    /\ calls = << >>
    /\ ret = "none"
    /\ notified = << >>
    /\ caller = NoCaller
    /\ ents = << >>
    /\ entityCache = Null
    /\ out = NoOut
    /\ inflight = NoInflight

\* Which rules an event runs: triggers set on the rule, the config or the
\* parent, events given or omitted, validation held or not.
NextTriggers ==
    \/ \E v \in TriggerValidationInputs : SetValidation(v)
    \/ \E e \in EventTypeInputs : Validate(e)
    \/ \E h \in TriggerHoldInputs : SetHoldValidation(h)
    \/ ClearValidated

SpecTriggers == InitTriggers /\ [][NextTriggers]_vars

\* The outcomes of checks: passing, failing, throwing and rejecting ones,
\* synchronous and asynchronous, run by validate and by value assignment.
NextChecks ==
    \/ \E v \in {JsNumber(0), JsNumber(1)} : SetValue(v)
    \/ \E v \in ChecksValidationInputs : SetValidation(v)
    \/ \E e \in EventTypeInputs : Validate(e)
    \/ \E i \in DOMAIN calls : \E check \in calls[i].pending : Settle(i, check)
    \/ \E i \in DOMAIN calls : Resolve(i)

SpecChecks == Init /\ [][NextChecks]_vars

\* A field with listeners on any of its parameters: value assignment and touch
\* with checks run on change, and the direct assignments of the counters.
NextListeners ==
    \/ \E v \in {JsNumber(0), JsNumber(1)} : SetValue(v)
    \/ \E v \in {JsNumber(0), JsNumber(1)} : Touch(v)
    \/ \E t \in 0 .. MaxCount : SetTouched(t)
    \/ \E c \in 0 .. MaxCount : SetChanged(c)
    \/ SetValidation(Some(CfgNotify))
    \/ \E p \in ListenerParams : AddFirstListener(p, "l1")

SpecListeners == Init /\ [][NextListeners]_vars

\* A field with listeners whose calls may be held: value assignment with checks
\* run on change, under each setting of holdListeners.
NextHold ==
    \/ \E v \in {JsNumber(0), JsNumber(1)} : SetValue(v)
    \/ SetValidation(Some(CfgNotify))
    \/ \E h \in HoldListenersInputs : SetHoldListeners(h)
    \/ \E p \in ListenerParams \ {"touched"} : AddFirstListener(p, "l1")

SpecHold == Init /\ [][NextHold]_vars

\* The required shortcut: required assigned on a field with and without a
\* config, with and without a stored required message.
NextRequiredSetter ==
    \/ \E v \in Values : SetValue(v)
    \/ \E r \in RequiredSetterInputs : SetRequired(r)
    \/ \E v \in {Null, Some(CfgRequiredOnChange), Some(CfgRulesOnly)} : SetValidation(v)
    \/ \E e \in EventTypeInputs : Validate(e)
    \/ \E p \in {"any", "messages"} : AddFirstListener(p, "l1")

SpecRequiredSetter == Init /\ [][NextRequiredSetter]_vars

\* The validation config and the objects it is made of: configs assigned and
\* read back, and the caller changing the object it passed or received.
NextConfig ==
    \/ \E c \in ConfigInputs : AssignValidation(c)
    \/ ReadValidation
    \/ \E part \in ConfigParts : ChangeCallerConfig(part)
    \/ \E v \in {JsNumber(0), JsNumber(1)} : SetValue(v)
    \/ \E m \in {Null, Some(<< InfoMsg >>)} : SetCustomMessages(m)

SpecConfig == Init /\ [][NextConfig]_vars

\* required given as a rule object, with and without a validate function.
NextRequiredObject ==
    \/ \E v \in Values : SetValue(v)
    \/ \E v \in Values : Touch(v)
    \/ \E c \in {CfgRequiredNoValidate, CfgRequiredObject} : SetValidation(Some(c))
    \/ \E e \in EventTypeInputs : Validate(e)
    \/ \E p \in {"any", "messages"} : AddFirstListener(p, "l1")

SpecRequiredObject == Init /\ [][NextRequiredObject]_vars

\* validate(eventType) called while earlier calls may still be in flight
ValidateOverlapping(eventType) ==
    /\ Len(calls) < MaxOverlap
    /\ Returns(validate(fc, eventType))
    /\ FieldOnly

\* Overlapping validate calls: a call started before the checks of an earlier
\* one have settled, on another value, and the checks settling in any order.
NextOverlap ==
    \/ \E v \in {JsNumber(0), JsNumber(1)} : SetValue(v)
    \/ SetValidation(Some(CfgOverlap))
    \/ ValidateOverlapping("")
    \/ \E i \in DOMAIN calls : \E check \in calls[i].pending : Settle(i, check)
    \/ \E i \in DOMAIN calls : Resolve(i)

SpecOverlap == Init /\ [][NextOverlap]_vars

\* Validation run again: the same checks on the same and on another value,
\* with listeners for the messages and the flags.
NextRevalidate ==
    \/ \E v \in {JsNumber(0), JsNumber(1)} : SetValue(v)
    \/ \E c \in {CfgNotify, CfgSyncRules} : SetValidation(Some(c))
    \/ \E e \in EventTypeInputs : Validate(e)
    \/ \E p \in {"any", "messages", "error"} : AddFirstListener(p, "l1")

SpecRevalidate == Init /\ [][NextRevalidate]_vars

\* The listeners of one parameter: callbacks added and removed in any order,
\* and the assignments of touched that dispatch to them.
NextRegistry ==
    \/ \E l \in RegistryListenerInputs : AddListener("touched", l)
    \/ \E l \in RegistryListenerInputs : RemoveListener("touched", l)
    \/ \E t \in 0 .. MaxCount : SetTouched(t)

SpecRegistry == Init /\ [][NextRegistry]_vars

\* A field with listeners on any of its parameters: the overrides and the
\* custom messages they are derived against.
NextOverrides ==
    \/ \E o \in OverrideInputs : SetErrorOverride(o)
    \/ \E o \in OverrideInputs : SetWarningOverride(o)
    \/ \E msgs \in CustomMessagesInputs : SetCustomMessages(msgs)
    \/ \E p \in ListenerParams : AddFirstListener(p, "l1")

SpecOverrides == Init /\ [][NextOverrides]_vars

\* ------------------------------------------------------------------- claims

\* The list the documentation of the messages getter describes: the required
\* message, then the rule messages by ascending rule index, then the custom
\* messages as given; null when there is none.
RECURSIVE RuleMessagesInOrder(_)
RuleMessagesInOrder(arr) ==
    IF arr = << >> THEN << >>
    ELSE (IF IsNull(Head(arr)) THEN << >> ELSE << Get(Head(arr)) >>)
         \o RuleMessagesInOrder(Tail(arr))

ExpectedMessages(f) ==
    LET all == (IF IsNull(f.requiredMessage) THEN << >> ELSE << Get(f.requiredMessage) >>)
               \o (IF IsNull(f.rulesMessages) THEN << >>
                   ELSE RuleMessagesInOrder(Get(f.rulesMessages)))
               \o (IF IsNull(f.customMessages) THEN << >> ELSE Get(f.customMessages))
    IN  IF all = << >> THEN Null ELSE Some(all)

HasMessageOfType(f, type) ==
    /\ ~IsNull(f.messages)
    /\ \E k \in DOMAIN Get(f.messages) : Get(f.messages)[k].type = type

\* C1: on a field with no error override whose config has a rule with an
\* asynchronous check resolving false, validate() returns a promise at once, and
\* when that promise resolves it resolves to false and error is true.
C1_AsyncFailureSetsError ==
    [][/\ (/\ Validate("")
           /\ fc.validation = Some(CfgAsyncFalse))
          => ret' = "promise"
       /\ \A i \in DOMAIN calls :
            (/\ Resolve(i)
             /\ calls[i].attached
             /\ fc.validation = Some(CfgAsyncFalse)
             /\ IsNull(fc.errorOverride))
            => (ret' = "resolved false" /\ fc'.error = TRUE)]_vars

NotCounterAssignment ==
    \/ \E v \in {JsNumber(0), JsNumber(1)} : SetValue(v)
    \/ \E v \in {JsNumber(0), JsNumber(1)} : Touch(v)
    \/ \E o \in OverrideInputs : SetErrorOverride(o)
    \/ \E o \in OverrideInputs : SetWarningOverride(o)
    \/ \E msgs \in CustomMessagesInputs : SetCustomMessages(msgs)
    \/ ClearValidated
    \/ Clear
    \/ Reset
    \/ \E v \in SyncValidationInputs : SetValidation(v)
    \/ \E e \in EventTypeInputs : Validate(e)

C3_MessagesAreSources == (calls = << >>) => fc.messages = ExpectedMessages(fc)

\* C4: a set errorOverride fixes error, and a set warningOverride fixes warning.
C4_OverridePinsFlag ==
    /\ ~IsNull(fc.errorOverride) => fc.error = Get(fc.errorOverride)
    /\ ~IsNull(fc.warningOverride) => fc.warning = Get(fc.warningOverride)

\* errorOverride = false holds error down although messages has an error
\* message, and warningOverride = true holds warning up with no warning message.
C4_Witness ==
    /\ fc.errorOverride = Some(FALSE)
    /\ HasMessageOfType(fc, "error")
    /\ fc.error = FALSE
    /\ fc.warningOverride = Some(TRUE)
    /\ ~HasMessageOfType(fc, "warning")
    /\ fc.warning = TRUE

\* C5: with no override set, error (warning) is true exactly when messages holds
\* a message of type 'error' ('warning').
C5_FlagsFollowMessages ==
    /\ IsNull(fc.errorOverride) => (fc.error <=> HasMessageOfType(fc, "error"))
    /\ IsNull(fc.warningOverride) => (fc.warning <=> HasMessageOfType(fc, "warning"))

\* C6: a value assignment raises changed by exactly 1 and keeps touched, also
\* when the value assigned is the current one.
C6_SetValueCountsChange ==
    [][\A v \in {JsNumber(0), JsNumber(1)} :
          SetValue(v) => (fc'.changed = fc.changed + 1 /\ fc'.touched = fc.touched)]_vars

\* Two assignments and no touch have been counted, the second one of the value
\* the field already held when constructed.
C6_Witness == fc.changed = 2 /\ fc.touched = 0 /\ fc.value = fc.defaultValue

\* C7: touch(x) raises touched by 1, raises changed by 1 and leaves value = x.
C7_TouchCountsBoth ==
    [][\A v \in {JsNumber(0), JsNumber(1)} :
          Touch(v) => /\ fc'.touched = fc.touched + 1
                      /\ fc'.changed = fc.changed + 1
                      /\ fc'.value = v]_vars

\* Two touches have been counted and the touched value is stored.
C7_Witness == fc.touched = 2 /\ fc.changed = 2 /\ fc.value = JsNumber(0)

\* C8: whenever messages is given a new content, that content is the required
\* message, then the rule messages by rule index, then the custom messages,
\* whatever order the checks ran or settled in.
C8_MessagesOrder ==
    [][fc'.messages # fc.messages => fc'.messages = ExpectedMessages(fc')]_vars

\* All three sources are in messages, the rule messages of the two asynchronous
\* checks around the one of the synchronous check.
C8_Witness ==
    fc.messages = Some(<< Msg("Needed", "error"), Msg("A1", "error"),
                          Msg("S2", "warning"), Msg("A3", "warning"),
                          WarnMsg, ErrMsg >>)

\* The values VALIDATION_DEFAULTS.requiredValidate rejects.
EmptyValues == {JsUndefined, JsNull, JsString(""), JsNumber(0)}

\* C9: with validation {required: true} a value assignment leaves the message
\* {message: 'Required field', type: 'error'} and error = true exactly when the
\* value is undefined, null, '' or 0, and no required message otherwise.
C9_RequiredOnAssignment ==
    [][\A v \in Values :
          (/\ SetValue(v)
           /\ fc.validation = Some(CfgRequired)
           /\ fc.holdValidation = HoldBool(FALSE))
          => IF v \in EmptyValues
                THEN /\ fc'.requiredMessage = Some(Msg("Required field", "error"))
                     /\ fc'.error = TRUE
                ELSE IsNull(fc'.requiredMessage)]_vars

\* C10: reset() restores the default value, zeroes the counters, drops messages,
\* custom messages and overrides, and keeps the validation config and listeners.
C10_Reset ==
    [][Reset => /\ fc'.value = fc.defaultValue
                /\ fc'.touched = 0
                /\ fc'.changed = 0
                /\ fc'.messages = Null
                /\ fc'.error = FALSE
                /\ fc'.warning = FALSE
                /\ fc'.customMessages = Null
                /\ fc'.errorOverride = Null
                /\ fc'.warningOverride = Null
                /\ fc'.validation = fc.validation
                /\ fc'.listeners = fc.listeners]_vars

\* The state reset leaves behind on a configured field with a listener: the
\* rule message array is gone although the config that created it remains.
C10_Witness ==
    /\ fc.validation = Some(CfgSyncRules)
    /\ fc.listeners["any"] = PlainListener("l1")
    /\ fc.value = fc.defaultValue
    /\ fc.touched = 0
    /\ fc.changed = 0
    /\ fc.messages = Null
    /\ fc.errorOverride = Null
    /\ fc.rulesMessages = Null
    /\ fc.holdValidation = HoldBool(FALSE)

\* C11: clear() drops the required message, the rule messages, the custom
\* messages and both overrides, leaving messages null and both flags false, and
\* keeps value, touched, changed and the validation config.
C11_Clear ==
    [][Clear => /\ fc'.requiredMessage = Null
                /\ fc'.rulesMessages = Null
                /\ fc'.customMessages = Null
                /\ fc'.errorOverride = Null
                /\ fc'.warningOverride = Null
                /\ fc'.messages = Null
                /\ fc'.error = FALSE
                /\ fc'.warning = FALSE
                /\ fc'.value = fc.value
                /\ fc'.touched = fc.touched
                /\ fc'.changed = fc.changed
                /\ fc'.validation = fc.validation]_vars

\* A field whose empty value had been validated and counted is cleared: the
\* 'any' listener was told, the value and counters are as they were.
C11_Witness ==
    /\ fc.validation = Some(CfgRequiredOnChange)
    /\ fc.value = JsNumber(0)
    /\ fc.touched = 1
    /\ fc.changed = 2
    /\ fc.requiredMessage = Null
    /\ fc.rulesMessages = Null
    /\ fc.messages = Null
    /\ fc.error = FALSE
    /\ notified = << [listener |-> "l1", param |-> "any"] >>

\* C12: clearValidated() removes the required message and the rule messages,
\* keeps the custom messages and both overrides, and leaves messages equal to
\* the custom messages (null when there are none).
C12_ClearValidated ==
    [][ClearValidated => /\ fc'.requiredMessage = Null
                         /\ fc'.rulesMessages = Null
                         /\ fc'.customMessages = fc.customMessages
                         /\ fc'.errorOverride = fc.errorOverride
                         /\ fc'.warningOverride = fc.warningOverride
                         /\ fc'.messages = fc.customMessages]_vars

\* The rule messages of a validated empty value are gone, the custom messages
\* and the override that were set remain, and the 'any' listener was told.
C12_Witness ==
    /\ fc.validation = Some(CfgSyncRules)
    /\ fc.value = JsNumber(0)
    /\ fc.changed = 1
    /\ fc.rulesMessages = Null
    /\ fc.customMessages = Some(<< WarnMsg, ErrMsg >>)
    /\ fc.messages = Some(<< WarnMsg, ErrMsg >>)
    /\ fc.errorOverride = Some(FALSE)
    /\ notified = << [listener |-> "l1", param |-> "any"] >>

\* C13: a check that throws and a check whose promise rejects act as a check
\* that returned false: validate returns false (or a promise that resolves to
\* false), and the slot of the rule holds its failure message.
C13_ThrowingCheckFails ==
    [][/\ (Validate("demand") /\ fc.validation = Some(CfgThrowing))
          => /\ ret' = "false"
             /\ At(Get(fc'.rulesMessages), 1) = Some(Msg("T1", "error"))
       /\ \A e \in {"", "touch"} :
            (Validate(e) /\ fc.validation = Some(CfgThrowing)) => ret' = "promise"
       /\ \A i \in DOMAIN calls : \A check \in calls[i].pending :
            (/\ Settle(i, check)
             /\ calls[i].attached
             /\ check.rule.validate = "asyncReject")
            => At(Get(fc'.rulesMessages), check.slot) = Some(Msg("T2", "warning"))
       /\ \A i \in DOMAIN calls :
            (/\ Resolve(i)
             /\ calls[i].attached
             /\ fc.validation = Some(CfgThrowing))
            => ret' = "resolved false"]_vars

\* validate() ran the throwing and the rejecting check, its promise resolved to
\* false, and both failure messages are in their slots.
C13_Witness ==
    /\ fc.validation = Some(CfgThrowing)
    /\ ret = "resolved false"
    /\ calls = << >>
    /\ fc.rulesMessages = Some(<< Some(Msg("T1", "error")), Some(Msg("T2", "warning")) >>)

\* The rules validate(eventType) runs, in the order it runs them: the required
\* rule if required is set, then the rules of the config.
RanRules(f, eventType) ==
    IF IsNull(f.validation) \/ holdForSure(f.holdValidation, eventType) THEN << >>
    ELSE LET all == (IF requiredIsTruthy(Get(f.validation).required)
                        THEN << requiredRule(f) >> ELSE << >>)
                    \o Get(f.validation).rules
         IN  SelectSeq(all, LAMBDA rule : shouldValidate(f, rule, eventType))

\* C16: validate returns the logical AND of the outcomes of the checks it ran,
\* as a boolean when they were all synchronous, and as a promise that resolves to
\* it when one of them returned a promise.
C16_ResultIsConjunction ==
    [][/\ \A e \in EventTypeInputs :
            Validate(e) =>
                LET ran == RanRules(fc, e)
                    outcomes == [k \in DOMAIN ran |-> CheckOutcome(ran[k].validate, fc.value)]
                IN  IF \E k \in DOMAIN ran : IsAsync(ran[k].validate)
                    THEN /\ ret' = "promise"
                         /\ Len(calls') = Len(calls) + 1
                         /\ calls'[Len(calls')].results = outcomes
                    ELSE /\ ret' = BoolRet(\A k \in DOMAIN outcomes : outcomes[k])
                         /\ Len(calls') = Len(calls)
       /\ \A i \in DOMAIN calls :
            Resolve(i) =>
                ret' = IF \A k \in DOMAIN calls[i].results : calls[i].results[k]
                          THEN "resolved true" ELSE "resolved false"]_vars

\* A promise of a call that ran a failing and a passing check is in flight.
C16_Witness ==
    /\ ret = "promise"
    /\ Len(calls) = 1
    /\ calls[1].results = << FALSE, FALSE, TRUE >>

\* The content of a rule's slot after its check: the failure message, the
\* message of type typeIfPassed, or nothing.
ExpectedSlot(rule, passed) ==
    IF ~passed THEN Some(Msg(rule.message, IF rule.type # "" THEN rule.type ELSE "error"))
    ELSE IF rule.typeIfPassed # "" THEN Some(Msg(rule.message, rule.typeIfPassed))
    ELSE Null

\* The slots of the synchronous rules run for eventType hold what their checks
\* on value v leave.
SyncSlotsAsExpected(eventType, v) ==
    \A i \in DOMAIN Get(fc.validation).rules :
        LET rule == Get(fc.validation).rules[i]
        IN  (shouldValidate(fc, rule, eventType) /\ ~IsAsync(rule.validate))
            => At(Get(fc'.rulesMessages), i) = ExpectedSlot(rule, CheckOutcome(rule.validate, v))

\* C17: after a rule's check has run, its slot holds {message, type or 'error'}
\* if it failed, {message, typeIfPassed} if it passed with typeIfPassed set, and
\* no message if it passed without.
C17_SlotAfterCheck ==
    [][/\ \A e \in EventTypeInputs :
            (Validate(e) /\ ~IsNull(fc.validation)) => SyncSlotsAsExpected(e, fc.value)
       /\ \A v \in {JsNumber(0), JsNumber(1)} :
            (SetValue(v) /\ ~IsNull(fc.validation)) => SyncSlotsAsExpected("change", v)
       /\ \A i \in DOMAIN calls : \A check \in calls[i].pending :
            (Settle(i, check) /\ calls[i].attached)
            => At(Get(fc'.rulesMessages), check.slot)
                 = ExpectedSlot(check.rule, check.passed)]_vars

\* The first check passed and left its typeIfPassed message; the third passed
\* and its earlier failure message was removed, leaving a hole at its slot.
C17_Witness ==
    /\ fc.validation = Some(CfgPassing)
    /\ fc.value = JsNumber(1)
    /\ fc.rulesMessages = Some(<< Some(Msg("P1", "success")), Null, Null >>)

\* C14: validate(eventType) on a field with no validation config, with
\* holdValidation true, or with a holdValidation list containing eventType
\* returns true, changes nothing of the field, calls no listener and leaves no
\* validation behind to be run later.
C14_SkippedValidation ==
    [][\A e \in EventTypeInputs :
          (/\ Validate(e)
           /\ \/ IsNull(fc.validation)
              \/ fc.holdValidation = HoldBool(TRUE)
              \/ (~IsNull(fc.holdValidation.list) /\ e \in Get(fc.holdValidation.list)))
          => /\ ret' = "true"
             /\ fc' = fc
             /\ notified' = << >>
             /\ calls' = calls]_vars

\* validate('change') was held by the list: the empty value of a required field
\* with listeners has left no message.
C14_Witness ==
    /\ fc.validation = Some(CfgRequiredOnChange)
    /\ fc.holdValidation = HoldList({"change"})
    /\ fc.value = JsString("")
    /\ fc.listeners["messages"] = PlainListener("l1")
    /\ fc.listeners["any"] = PlainListener("l1")
    /\ ret = "true"
    /\ fc.requiredMessage = Null
    /\ fc.messages = Null
    /\ notified = << >>

\* The trigger of a rule: its own validateOn, else the config's, else the
\* parent's validationOptions.validateOn, else 'demand'.
TriggerOf(rule) ==
    IF rule.validateOn # "" THEN rule.validateOn
    ELSE IF Get(fc.validation).validateOn # "" THEN Get(fc.validation).validateOn
    ELSE IF ~IsNull(fc.parentOptions) /\ Get(fc.parentOptions).validateOn # ""
         THEN Get(fc.parentOptions).validateOn
    ELSE "demand"

\* Whether validate(eventType) is to run a rule with that trigger.
RunsOn(trigger, eventType) ==
    IF eventType # ""
        THEN trigger = eventType \/ (eventType = "touch" /\ trigger = "change")
        ELSE ~(~IsNull(fc.holdValidation.list) /\ trigger \in Get(fc.holdValidation.list))

RECURSIVE OwedCalls(_, _, _)
OwedCalls(before, after, params) ==
    IF params = << >> THEN << >>
    ELSE LET param == Head(params)
             items == before.listeners[param].items
         IN  (IF param = "any" \/ after[param] # before[param]
                 THEN [k \in DOMAIN items |-> [listener |-> items[k], param |-> param]]
                 ELSE << >>)
             \o OwedCalls(before, after, Tail(params))

\* C18: a value assignment calls the listeners of those of value, changed,
\* error, warning, messages that differ from before the assignment, once each
\* and in that order, then the 'any' listeners; touch does the same with touched
\* between value and changed.
C18_NotifiesWhatChanged ==
    [][/\ \A v \in {JsNumber(0), JsNumber(1)} :
            SetValue(v) =>
                notified' = OwedCalls(fc, fc', << "value", "changed", "error", "warning",
                                                 "messages", "any" >>)
       /\ \A v \in {JsNumber(0), JsNumber(1)} :
            Touch(v) =>
                notified' = OwedCalls(fc, fc', << "value", "touched", "changed", "error",
                                                 "warning", "messages", "any" >>)]_vars

\* touch(0) on a validated field with a listener on every parameter changed all
\* of them: each listener was called once, in order.
C18_Witness ==
    /\ \A p \in ListenerParams : fc.listeners[p] = PlainListener("l1")
    /\ notified = [k \in 1 .. 7 |->
                      [listener |-> "l1",
                       param |-> << "value", "touched", "changed", "error", "warning",
                                    "messages", "any" >>[k]]]

\* C19: assigning touched (changed) sets that counter to the number given,
\* changes nothing else of the field, starts no validation, and calls the
\* listeners of that one parameter only.
C19_CounterAssignment ==
    [][/\ \A t \in 0 .. MaxCount :
            SetTouched(t) => /\ fc' = [fc EXCEPT !.touched = t]
                             /\ notified' = OwedCalls(fc, fc', << "touched" >>)
                             /\ calls' = calls
       /\ \A c \in 0 .. MaxCount :
            SetChanged(c) => /\ fc' = [fc EXCEPT !.changed = c]
                             /\ notified' = OwedCalls(fc, fc', << "changed" >>)
                             /\ calls' = calls]_vars

\* touched was assigned 2 on a field with an error message, one counted change
\* and a listener on every parameter: only the touched listener was called.
C19_Witness ==
    /\ \A p \in ListenerParams : fc.listeners[p] = PlainListener("l1")
    /\ fc.touched = 2
    /\ fc.changed = 1
    /\ fc.error = TRUE
    /\ ~IsNull(fc.messages)
    /\ notified = << [listener |-> "l1", param |-> "touched"] >>

\* Whether one of the message sources of the field holds a message of the type.
SourceHasType(f, type) ==
    \/ (~IsNull(f.requiredMessage) /\ Get(f.requiredMessage).type = type)
    \/ /\ ~IsNull(f.rulesMessages)
       /\ \E i \in DOMAIN Get(f.rulesMessages) :
            /\ ~IsNull(Get(f.rulesMessages)[i])
            /\ Get(Get(f.rulesMessages)[i]).type = type
    \/ /\ ~IsNull(f.customMessages)
       /\ \E i \in DOMAIN Get(f.customMessages) : Get(f.customMessages)[i].type = type

\* C20: assigning errorOverride changes neither warning nor messages (nor
\* anything but errorOverride and error); assigning a boolean calls the error
\* listeners only, and unsetting it leaves error true exactly when a message
\* source holds an error message.  The same for warningOverride and warning.
C20_OverrideAssignment ==
    [][/\ \A o \in OverrideInputs :
            SetErrorOverride(o) =>
                /\ fc' = [fc EXCEPT !.errorOverride = o, !.error = fc'.error]
                /\ ~IsNull(o) => notified' = OwedCalls(fc, fc', << "error" >>)
                /\ (IsNull(o) /\ ~IsNull(fc.errorOverride))
                        => fc'.error = SourceHasType(fc', "error")
       /\ \A o \in OverrideInputs :
            SetWarningOverride(o) =>
                /\ fc' = [fc EXCEPT !.warningOverride = o, !.warning = fc'.warning]
                /\ ~IsNull(o) => notified' = OwedCalls(fc, fc', << "warning" >>)
                /\ (IsNull(o) /\ ~IsNull(fc.warningOverride))
                        => fc'.warning = SourceHasType(fc', "warning")]_vars

\* errorOverride was unset while the custom messages hold an error message and
\* warning is pinned to false: error went up alone, and of the listeners on
\* every parameter those of error and 'any' were called.
C20_Witness ==
    /\ \A p \in ListenerParams : fc.listeners[p] = PlainListener("l1")
    /\ fc.customMessages = Some(<< WarnMsg, ErrMsg >>)
    /\ fc.errorOverride = Null
    /\ fc.error = TRUE
    /\ fc.warningOverride = Some(FALSE)
    /\ fc.warning = FALSE
    /\ notified = << [listener |-> "l1", param |-> "error"],
                     [listener |-> "l1", param |-> "any"] >>

\* C21: a listener of value, touched, changed, error, warning or messages is
\* called only in an operation that changed that parameter, and only while
\* holdListeners is neither true nor a list containing it; assigning
\* holdListeners calls nothing, so a held call is not made up for later.
C21_CalledOnlyWhenChangedAndNotHeld ==
    [][/\ \A k \in DOMAIN notified' :
            LET param == notified'[k].param
            IN  param # "any"
                => /\ fc'[param] # fc[param]
                   /\ fc.holdListeners # HoldBool(TRUE)
                   /\ ~(~IsNull(fc.holdListeners.list)
                        /\ param \in Get(fc.holdListeners.list))
       /\ \A h \in HoldListenersInputs :
            SetHoldListeners(h) => /\ notified' = << >>
                                   /\ fc' = [fc EXCEPT !.holdListeners = h]]_vars

\* An assignment changed value, changed, error, warning and messages while the
\* listeners of value and error were held: the others were called.
C21_Witness ==
    /\ \A p \in ListenerParams \ {"touched"} : fc.listeners[p] = PlainListener("l1")
    /\ fc.holdListeners = HoldList({"value", "error"})
    /\ fc.value = JsNumber(0)
    /\ fc.error = TRUE
    /\ notified = << [listener |-> "l1", param |-> "changed"],
                     [listener |-> "l1", param |-> "warning"],
                     [listener |-> "l1", param |-> "messages"],
                     [listener |-> "l1", param |-> "any"] >>

\* The callbacks registered for touched, as a set and in dispatch order.
Registered(f) == {f.listeners["touched"].items[k] : k \in DOMAIN f.listeners["touched"].items}

DispatchOrder(f) == f.listeners["touched"].items

\* C22: the callbacks registered are those added and not removed since, an added
\* callback counting once; removeListener returns true iff the callback was
\* registered; with none left the field holds no listeners, as when constructed;
\* a dispatch calls each registered callback exactly once.
C22_RegistryIsASet ==
    [][/\ \A l \in RegistryListenerInputs :
            AddListener("touched", l) => Registered(fc') = Registered(fc) \cup {l}
       /\ \A l \in RegistryListenerInputs :
            RemoveListener("touched", l)
            => /\ Registered(fc') = Registered(fc) \ {l}
               /\ ret' = BoolRet(l \in Registered(fc))
               /\ Registered(fc') = {} => fc'.listeners = NewField(JsNumber(1)).listeners
       /\ \A t \in 0 .. MaxCount :
            (SetTouched(t) /\ t # fc.touched)
            => /\ {notified'[k].listener : k \in DOMAIN notified'} = Registered(fc)
               /\ Len(notified') = Cardinality(Registered(fc))]_vars

\* Two of three callbacks are registered, the third was just removed, and a
\* callback registered twice is listed once.
C22_Witness ==
    /\ Registered(fc) = {"l1", "l3"}
    /\ Len(DispatchOrder(fc)) = 2
    /\ ret = "true"

\* C23: a dispatch calls the callbacks in the order of their registration: a
\* callback newly registered comes last, one already registered keeps its
\* place, and removing one keeps the order of the others, whether the listeners
\* are held as one callback or as a Set.
C23_DispatchInRegistrationOrder ==
    [][/\ \A l \in RegistryListenerInputs :
            AddListener("touched", l)
            => DispatchOrder(fc') = IF l \in Registered(fc) THEN DispatchOrder(fc)
                                    ELSE Append(DispatchOrder(fc), l)
       /\ \A l \in RegistryListenerInputs :
            RemoveListener("touched", l)
            => DispatchOrder(fc') = SelectSeq(DispatchOrder(fc), LAMBDA x : x # l)
       /\ \A t \in 0 .. MaxCount :
            (SetTouched(t) /\ t # fc.touched)
            => notified' = [k \in DOMAIN DispatchOrder(fc) |->
                              [listener |-> DispatchOrder(fc)[k], param |-> "touched"]]]_vars

\* Three callbacks were called with l1 last: the Set was built from a plain
\* listener other than l1, or l1 was removed and registered again after the others.
C23_Witness ==
    /\ notified = << [listener |-> "l2", param |-> "touched"],
                     [listener |-> "l3", param |-> "touched"],
                     [listener |-> "l1", param |-> "touched"] >>
    /\ DispatchOrder(fc) = << "l2", "l3", "l1" >>
    /\ fc.listeners["touched"].kind = "set"

\* C24: required = false on a field with no config leaves the config null; any
\* other assignment makes validation.required the assigned value; an assignment
\* of the value validation.required already has changes nothing; an assignment
\* of another value removes the stored required message and recomputes messages,
\* and changes nothing else.
C24_RequiredSetter ==
    [][\A r \in RequiredSetterInputs :
         SetRequired(r)
         => IF r = ReqBool(FALSE) /\ IsNull(fc.validation)
            THEN fc' = fc /\ notified' = << >>
            ELSE /\ ~IsNull(fc'.validation)
                 /\ Get(fc'.validation).required = r
                 /\ IF ~IsNull(fc.validation) /\ Get(fc.validation).required = r
                    THEN fc' = fc /\ notified' = << >>
                    ELSE /\ IsNull(fc'.requiredMessage)
                         /\ fc'.messages = ExpectedMessages(fc')
                         /\ LET old == IF IsNull(fc.validation)
                                        THEN Validation(ReqAbsent, << >>, "", "")
                                        ELSE Get(fc.validation)
                            IN  [fc' EXCEPT !.requiredMessage = fc.requiredMessage,
                                            !.messages = fc.messages,
                                            !.error = fc.error,
                                            !.warning = fc.warning,
                                            !.validation = fc.validation]
                                = fc
                                /\ Get(fc'.validation) = [old EXCEPT !.required = r]]_vars

\* required went from true, with its message stored, to a message of its own:
\* the stored message is gone and the messages listener was told.
C24_Witness ==
    /\ fc.validation = Some([CfgRequiredOnChange EXCEPT !.required = ReqString("Needed")])
    /\ IsNull(fc.requiredMessage)
    /\ IsNull(fc.messages)
    /\ \E k \in DOMAIN notified : notified[k].param = "messages"

\* C25: the config the getter returns and the config passed to the setter are
\* copies: the caller changing either, or a rule object of either, leaves the
\* field's config as it was; the setter makes the given config the field's and
\* drops the required and rule messages, keeping the custom messages.
C25_ConfigIsCopied ==
    [][/\ \A part \in ConfigParts :
            ChangeCallerConfig(part) => fc'.validation = fc.validation
       /\ \A c \in ConfigInputs :
            AssignValidation(c)
            => /\ fc'.validation = Some(c)
               /\ IsNull(fc'.requiredMessage)
               /\ IsNull(fc'.rulesMessages)
               /\ fc'.customMessages = fc.customMessages]_vars

\* C26: with required given as a rule object that has no validate function,
\* the required check is requiredValidate: validate() returns true and stores
\* no required message for a present value, and returns false and stores the
\* rule's message for undefined, null, '' and 0; so does a value assignment.
C26_RequiredObjectUsesDefaultCheck ==
    [][/\ (Validate("") /\ fc.validation = Some(CfgRequiredNoValidate))
          => /\ ret' = BoolRet(requiredValidate(fc.value))
             /\ IsNull(fc'.requiredMessage) <=> fc.value \notin EmptyValues
       /\ \A v \in Values :
            (SetValue(v) /\ fc.validation = Some(CfgRequiredNoValidate))
            => (IsNull(fc'.requiredMessage) <=> v \notin EmptyValues)]_vars

\* C30: destroy() empties the entity's fields and removes the entity from the
\* lookup, returns true iff it removed a registration of that entity, and leaves
\* every other entity's registration as it was: get(k) still returns any other
\* entity it returned before.
C30_DestroyRemovesOnlyItself ==
    [][\A e \in DOMAIN ents :
         Destroy(e)
         => /\ ents'[e].fields = << >>
            /\ \A k \in KeyInputs :
                 staticGet(entityCache', k) =
                     IF staticGet(entityCache, k) = Some(e) THEN Null
                     ELSE staticGet(entityCache, k)
            /\ out'.val = (\E k \in KeyInputs : staticGet(entityCache, k) = Some(e))
            /\ \A o \in DOMAIN ents \ {e} : ents'[o] = ents[o]]_vars

\* The place of a key in keys() after an entity was created with it.
KeysAfterCreate(keys, k) ==
    IF \E i \in DOMAIN keys : keys[i] = k THEN keys ELSE Append(keys, k)

\* C29: an entity created with a key is what get(key) returns, keys being
\* compared by identity, until it is destroyed, a later entity is created with
\* the key, or the cache is cleared; keys() lists the registered keys in the
\* order they were registered; after clearCache() keys() is empty and get
\* returns undefined for every key.
C29_RegisteredUntilRemoved ==
    [][/\ \A k \in KeyInputs \ {JsUndefined} :
            Create(k)
            => /\ staticGet(entityCache', k) = Some(Len(ents) + 1)
               /\ \A j \in KeyInputs \ {k} :
                    staticGet(entityCache', j) = staticGet(entityCache, j)
               /\ staticKeys(entityCache') = KeysAfterCreate(staticKeys(entityCache), k)
       /\ \A e \in DOMAIN ents :
            Destroy(e)
            => \A k \in KeyInputs :
                 staticGet(entityCache, k) \notin {Null, Some(e)}
                 => staticGet(entityCache', k) = staticGet(entityCache, k)
       /\ ClearCache
            => /\ staticKeys(entityCache') = << >>
               /\ \A k \in KeyInputs : IsNull(staticGet(entityCache', k))
       /\ \A k \in KeyInputs : GetEntity(k) => out'.val = staticGet(entityCache, k)
       /\ Keys => out'.val = staticKeys(entityCache)]_vars

\* The field keys an entity holds, and the keys of a list of [key, val] entries.
FieldKeys(ent) == {ent.fields[i].key : i \in DOMAIN ent.fields}

EntryKeys(entries) == {entries[i].key : i \in DOMAIN entries}

\* The field keys asked for: all the entity holds when none are given.
AskedKeys(ent, names) ==
    IF IsNull(names) THEN FieldKeys(ent) ELSE {Get(names)[i] : i \in DOMAIN Get(names)}

\* The value a bulk assignment gives for a key: that of its last entry for it.
GivenValue(params, n) ==
    params[CHOOSE i \in DOMAIN params :
              params[i].key = n /\ \A j \in DOMAIN params : params[j].key = n => j <= i].val

\* What bulk reads and strict lookups do with a key the entity does not hold.
ReadsIgnoreUnknownKeys ==
    /\ \A e \in OwnerInputs \cap DOMAIN ents, p \in {"value", "defaultValue"},
          ns \in FieldListInputs :
            GetFieldsParam(e, p, ns)
            => /\ EntryKeys(out'.val) = AskedKeys(ents[e], ns) \cap FieldKeys(ents[e])
               /\ \A i \in DOMAIN out'.val :
                    out'.val[i].val = Get(mapValue(ents[e].fields, out'.val[i].key))[p]
               /\ ents' = ents
    /\ \A e \in OwnerInputs \cap DOMAIN ents, n \in FieldInputs :
            (Field(e, n, TRUE) /\ n \notin FieldKeys(ents[e]))
            => (IsNull(out'.val) /\ ents' = ents)

\* C27 as stated: getValues/getDefaultValues omit the keys the entity does not
\* hold, field(key, true) returns undefined for such a key, and
\* setValues/setDefaultValues skip such keys; none of them adds a field.
C27_UnknownKeysIgnored ==
    [][/\ ReadsIgnoreUnknownKeys
       /\ \A e \in OwnerInputs \cap DOMAIN ents, p \in {"value", "defaultValue"},
             vs \in ValuesInputs, s \in BOOLEAN :
               SetFieldsParam(e, p, vs, s) => FieldKeys(ents'[e]) = FieldKeys(ents[e])]_vars

\* C27 amended: getValues/getDefaultValues omit the keys the entity does not
\* hold and field(key, true) returns undefined for such a key, adding no field;
\* setValues/setDefaultValues assign to the fields held and, with strict true,
\* skip the other keys and add no field; without strict they create a field
\* for each other key and assign to it.
C27_UnknownKeysIgnoredWhenStrict ==
    [][/\ ReadsIgnoreUnknownKeys
       /\ \A e \in OwnerInputs \cap DOMAIN ents, p \in {"value", "defaultValue"},
             vs \in ValuesInputs, s \in BOOLEAN :
               SetFieldsParam(e, p, vs, s)
               => /\ FieldKeys(ents'[e]) =
                        IF s THEN FieldKeys(ents[e])
                        ELSE FieldKeys(ents[e]) \cup EntryKeys(vs)
                  /\ \A n \in FieldKeys(ents'[e]) :
                        IF n \in EntryKeys(vs)
                        THEN Get(mapValue(ents'[e].fields, n))[p] = GivenValue(vs, n)
                        ELSE mapValue(ents'[e].fields, n) = mapValue(ents[e].fields, n)]_vars

\* setValues(values, true) was called with a key b on an entity holding a and
\* not b: a was assigned and there is still no b.
C27_Witness ==
    /\ out.op = "set" /\ out.param = "value" /\ out.strict
    /\ out.unknown = {"b"}
    /\ Len(ents) >= 1
    /\ FieldKeys(ents[1]) = {"a"}
    /\ Get(mapValue(ents[1].fields, "a")).changed = 1

\* The sum of a counter over the fields an entity holds, key by key.
RECURSIVE SumOver(_, _, _)
SumOver(keys, ent, param) ==
    IF keys = {} THEN 0
    ELSE LET n == CHOOSE k \in keys : TRUE
         IN  Get(mapValue(ent.fields, n))[param] + SumOver(keys \ {n}, ent, param)

\* C28: at every moment an entity's touched and changed are the sums of its
\* fields' touched and changed, its error and warning are true iff a field it
\* holds has error or warning, and an entity with no fields has 0, 0, false,
\* false; the totals read are these.
C28_TotalsOfOwnedFields ==
    /\ \A e \in DOMAIN ents :
         /\ entityTouched(ents[e]) = SumOver(FieldKeys(ents[e]), ents[e], "touched")
         /\ entityChanged(ents[e]) = SumOver(FieldKeys(ents[e]), ents[e], "changed")
         /\ entityError(ents[e])
              <=> \E n \in FieldKeys(ents[e]) : Get(mapValue(ents[e].fields, n)).error
         /\ entityWarning(ents[e])
              <=> \E n \in FieldKeys(ents[e]) : Get(mapValue(ents[e].fields, n)).warning
         /\ ents[e].fields = << >>
              => /\ entityTouched(ents[e]) = 0 /\ entityChanged(ents[e]) = 0
                 /\ ~entityError(ents[e]) /\ ~entityWarning(ents[e])
    /\ (out.op = "totals" /\ Len(ents) >= 1)
         => /\ out.touched = SumOver(FieldKeys(ents[1]), ents[1], "touched")
            /\ out.changed = SumOver(FieldKeys(ents[1]), ents[1], "changed")
            /\ out.error
                 <=> \E n \in FieldKeys(ents[1]) : Get(mapValue(ents[1].fields, n)).error
            /\ out.warning
                 <=> \E n \in FieldKeys(ents[1]) : Get(mapValue(ents[1].fields, n)).warning

\* Two fields touched twice each, one of them in error and none in warning,
\* and the totals read: 4, 4, true, false.
C28_Witness ==
    /\ out = [op |-> "totals", touched |-> 4, changed |-> 4, error |-> TRUE,
              warning |-> FALSE]
    /\ Len(ents[1].fields) = 2
    /\ Get(mapValue(ents[1].fields, "a")).touched = 2
    /\ Get(mapValue(ents[1].fields, "b")).touched = 2
    /\ Get(mapValue(ents[1].fields, "a")).error
    /\ ~Get(mapValue(ents[1].fields, "b")).error

\* C31: when validate or a value assignment has started asynchronous checks
\* on a config that also has synchronous checks, the messages of the
\* synchronous checks are in messages, and error and warning follow them, when
\* the call returns.
C31_SyncResultsVisibleOnReturn ==
    [][(/\ \/ \E e \in {"", "change"} : Validate(e)
           \/ \E v \in {JsNumber(0), JsNumber(1)} : SetValue(v)
        /\ fc.validation = Some(CfgMixed)
        /\ Len(calls') > Len(calls))
       => /\ fc'.messages = ExpectedMessages(fc')
          /\ IsNull(fc'.errorOverride) => (fc'.error <=> HasMessageOfType(fc', "error"))]_vars

\* C32: for a validate call that ran asynchronous checks, no settlement of one
\* check recomputes messages or calls a listener; when all have settled,
\* messages is recomputed if a slot changed through the call, so that with no
\* other call in flight messages is again what the slots give, and is left
\* alone if none changed.
C32_OneRecomputeAfterAllSettled ==
    [][/\ \A i \in DOMAIN calls : \A check \in calls[i].pending :
            Settle(i, check) => (fc'.messages = fc.messages /\ notified' = << >>)
       /\ \A i \in DOMAIN calls :
            (Resolve(i) /\ Len(calls) = 1 /\ calls[i].attached)
            => IF fc.messages = ExpectedMessages(fc)
               THEN fc'.messages = fc.messages /\ notified' = << >>
               ELSE fc'.messages = ExpectedMessages(fc')]_vars

\* The message stored in a slot: slot 0 is the required check's, slot i that of
\* rule i.
SlotContent(f, slot) ==
    IF slot = 0 THEN f.requiredMessage
    ELSE IF IsNull(f.rulesMessages) THEN Null
    ELSE At(Get(f.rulesMessages), slot)

\* C33: a validate call started while another is in flight leaves the other's
\* checks pending; each settlement writes its own outcome into its slot,
\* whichever call it belongs to, so that a slot written by two calls holds what
\* the check that settled last wrote; each promise resolves to the AND of the
\* outcomes of its own call.
C33_OverlappingCallsLastSettledWins ==
    [][/\ (ValidateOverlapping("") /\ fc.validation = Some(CfgOverlap))
          => /\ Len(calls') = Len(calls) + 1
             /\ \A i \in DOMAIN calls : calls'[i] = calls[i]
       /\ \A i \in DOMAIN calls : \A check \in calls[i].pending :
            (Settle(i, check) /\ calls[i].attached)
            => /\ SlotContent(fc', check.slot) = ExpectedSlot(check.rule, check.passed)
               /\ \A j \in DOMAIN calls \ {i} : calls'[j] = calls[j]
       /\ \A i \in DOMAIN calls :
            Resolve(i)
            => ret' = (IF \A k \in DOMAIN calls[i].results : calls[i].results[k]
                       THEN "resolved true" ELSE "resolved false")]_vars

\* Two calls are in flight with all checks settled, the first on an empty value
\* and the second on a present one; the first call's checks settled last, and
\* both slots hold its failure messages.
C33_Witness ==
    /\ Len(calls) = 2
    /\ calls[1].pending = {} /\ calls[2].pending = {}
    /\ calls[1].results = << FALSE, FALSE >>
    /\ calls[2].results = << TRUE, TRUE >>
    /\ fc.requiredMessage = Some(Msg("Needed", "error"))
    /\ SlotContent(fc, 1) = Some(Msg("A1", "error"))

\* Every check validate(eventType) runs leaves in its slot what is stored there.
ChecksLeaveSlotsAsStored(eventType) ==
    LET validation == Get(fc.validation)
    IN  /\ (requiredIsTruthy(validation.required)
             /\ shouldValidate(fc, requiredRule(fc), eventType))
            => ExpectedSlot(requiredRule(fc),
                            CheckOutcome(requiredRule(fc).validate, fc.value))
               = fc.requiredMessage
        /\ \A i \in DOMAIN validation.rules :
              shouldValidate(fc, validation.rules[i], eventType)
              => ExpectedSlot(validation.rules[i],
                              CheckOutcome(validation.rules[i].validate, fc.value))
                 = SlotContent(fc, i)

\* C34: a synchronous validate call whose checks all produce the message
\* already stored in their slot, or none where none is stored, recomputes
\* nothing: no listener is called (the messages listener would be, had a new
\* array been built) and the field is as before, but for the empty array of
\* rule messages a first call creates.
C34_NoRecomputeWithoutChange ==
    [][\A e \in EventTypeInputs :
         (/\ Validate(e)
          /\ ~IsNull(fc.validation)
          /\ ChecksLeaveSlotsAsStored(e))
         => /\ notified' = << >>
            /\ fc' = [fc EXCEPT !.rulesMessages = IF IsNull(@) THEN Some(<< >>) ELSE @]]_vars

\* validate() has just failed again on an empty value: the two messages were
\* there, the listeners are registered and none was called.
C34_Witness ==
    /\ ret = "false"
    /\ notified = << >>
    /\ fc.validation = Some(CfgNotify)
    /\ fc.messages = Some(<< Msg("Required field", "error"), Msg("R1", "warning") >>)
    /\ fc.listeners["messages"] = PlainListener("l1")
    /\ fc.listeners["any"] = PlainListener("l1")
    /\ fc.listeners["error"] = PlainListener("l1")

\* The keys of a list that the entity holds a field for, in the order of the list.
HeldKeys(ent, names) ==
    SelectSeq(IF IsNull(names) THEN mapKeys(ent.fields) ELSE Get(names),
              LAMBDA n : mapHas(ent.fields, n))

\* What validate(eventType) of the field under a key does and returns.
FieldOutcome(ent, n, eventType) == validate(Get(mapValue(ent.fields, n)), eventType)

\* C35: EntityCtrl.validate(fields, eventType) validates each listed field the
\* entity holds (all of them without a list) and no other, skips the keys with
\* no field without creating one, and returns the conjunction of what the
\* fields returned: a boolean when every field returned a boolean, and when a
\* field returned a promise, a promise that waits for each of them and resolves
\* to the conjunction of the booleans and of what the promises resolve to.
C35_ValidateIsAndOfFields ==
    [][/\ \A e \in DOMAIN ents, ns \in ValidateListInputs, et \in {"", "change"} :
            ValidateEntity(e, ns, et) =>
                LET held == HeldKeys(ents[e], ns)
                    o == [k \in DOMAIN held |-> FieldOutcome(ents[e], held[k], et)]
                    promisified == \E k \in DOMAIN o : o[k].ret = "promise"
                IN  /\ FieldKeys(ents'[e]) = FieldKeys(ents[e])
                    /\ \A n \in FieldKeys(ents[e]) :
                           mapValue(ents'[e].fields, n) =
                               IF \E k \in DOMAIN held : held[k] = n
                               THEN Some(AtRest(FieldOutcome(ents[e], n, et).f))
                               ELSE mapValue(ents[e].fields, n)
                    /\ out'.val = IF promisified THEN "promise"
                                  ELSE BoolRet(\A k \in DOMAIN o : o[k].ret = "true")
                    /\ IsNull(inflight'.promise) = ~promisified
                    /\ promisified =>
                           /\ DOMAIN Get(inflight'.promise) = DOMAIN o
                           /\ \A k \in DOMAIN o :
                                  LET p == Get(inflight'.promise)[k]
                                  IN  IF o[k].ret = "promise"
                                      THEN /\ ~p.done
                                           /\ p.value =
                                                (processBools(o[k].f, Get(o[k].call)).ret
                                                     = "resolved true")
                                      ELSE p.done /\ p.value = (o[k].ret = "true")
       /\ ResolveEntity =>
            LET p == Get(inflight.promise)
            IN  /\ inflight.calls = << >>
                /\ out'.val = IF \A k \in DOMAIN p : p[k].value
                              THEN "resolved true" ELSE "resolved false"
      ]_vars

\* validate(['a', 'c', 'b']) of an entity with the fields a and b and no field
\* c returned a promise: a passed its synchronous check, b's asynchronous
\* check has not settled.
C35_Witness ==
    /\ out.op = "validate"
    /\ out.names = Some(<< "a", "c", "b" >>)
    /\ out.val = "promise"
    /\ ~IsNull(inflight.promise)
    /\ Len(Get(inflight.promise)) = 2
    /\ Get(inflight.promise)[1].done /\ Get(inflight.promise)[1].value
    /\ ~Get(inflight.promise)[2].done
    /\ \E c \in DOMAIN inflight.calls :
          inflight.calls[c].name = "b" /\ inflight.calls[c].place = 2
                                     /\ inflight.calls[c].call.pending # {}

\* C36: EntityCtrl.reset(), no asynchronous check being in flight, leaves
\* getValues() equal to getDefaultValues(), the entity's touched and changed 0,
\* its error and warning false, and the fields it holds the same.
C36_ResetRestoresDefaults ==
    [][\A e \in DOMAIN ents :
          ResetEntity(e) =>
              /\ getFieldsParam(ents'[e], "value", Null)
                    = getFieldsParam(ents'[e], "defaultValue", Null)
              /\ getFieldsParam(ents'[e], "defaultValue", Null)
                    = getFieldsParam(ents[e], "defaultValue", Null)
              /\ entityTouched(ents'[e]) = 0
              /\ entityChanged(ents'[e]) = 0
              /\ ~entityError(ents'[e])
              /\ ~entityWarning(ents'[e])
              /\ mapKeys(ents'[e].fields) = mapKeys(ents[e].fields)
      ]_vars

\* An entity has been reset that had touched fields and an error, its fields
\* a and b having different default values and a carrying a required check.
C36_Witness ==
    /\ out.op = "reset"
    /\ out.touched > 1
    /\ out.error
    /\ Len(ents) = 1
    /\ FieldKeys(ents[1]) = {"a", "b"}
    /\ Get(mapValue(ents[1].fields, "a")).value = JsNumber(0)
    /\ Get(mapValue(ents[1].fields, "b")).value = JsNumber(1)
    /\ ~IsNull(Get(mapValue(ents[1].fields, "a")).validation)

\* The last operation called the 'any' listeners.
AnyCalled(called) == \E k \in DOMAIN called : called[k].param = "any"

\* The field has 'any' listeners and no listener is held.
AnyListening ==
    /\ fc.listeners["any"].kind # "none"
    /\ ~fc.holdListeners.all
    /\ fc.holdListeners.list = << >>

\* C37: an operation that changes one of value, touched, changed, error,
\* warning and messages, listeners not being held, calls the 'any' listeners.
C37_AnyOnEveryChange ==
    [][(/\ AnyListening
        /\ \/ fc'.value # fc.value
           \/ fc'.touched # fc.touched
           \/ fc'.changed # fc.changed
           \/ fc'.error # fc.error
           \/ fc'.warning # fc.warning
           \/ fc'.messages # fc.messages)
         => AnyCalled(notified')
      ]_vars

\* C37, amended: the 'any' listeners are called by every value assignment and
\* touch, and by every other operation that changes error, warning or messages
\* except the assignment of a boolean override; the assignment of touched, of
\* changed and of a boolean override do not call them, nor does a reset that
\* changes none of error, warning and messages.
C37_AnyOnAssignmentAndRecompute ==
    [][AnyListening =>
        /\ \A v \in {JsNumber(0), JsNumber(1)} :
              (SetValue(v) \/ Touch(v)) => AnyCalled(notified')
        /\ (/\ \/ fc'.error # fc.error
                \/ fc'.warning # fc.warning
                \/ fc'.messages # fc.messages
             /\ \A b \in BOOLEAN :
                   ~SetErrorOverride(Some(b)) /\ ~SetWarningOverride(Some(b)))
              => AnyCalled(notified')
        /\ \A t \in {0, 1} : SetTouched(t) \/ SetChanged(t) => ~AnyCalled(notified')
        /\ \A b \in BOOLEAN :
              SetErrorOverride(Some(b)) \/ SetWarningOverride(Some(b))
                  => ~AnyCalled(notified')
        /\ (/\ Reset
             /\ fc'.error = fc.error
             /\ fc'.warning = fc.warning
             /\ fc'.messages = fc.messages) => ~AnyCalled(notified')
      ]_vars

\* touched was assigned on a field with a listener for 'any' and one for
\* 'touched': the latter alone was called.
C37_Witness ==
    /\ AnyListening
    /\ fc.listeners["touched"].kind # "none"
    /\ fc.changed = 0
    /\ fc.touched > 0
    /\ notified = << [listener |-> "l1", param |-> "touched"] >>

\* A stored message is one of the messages of the field.
InMessages(f, m) ==
    IsNull(m) \/ (~IsNull(f.messages)
                  /\ \E k \in DOMAIN Get(f.messages) : Get(f.messages)[k] = Get(m))

\* C38: validate(eventType) leaves the stored message of required and of
\* every rule that is not run for eventType as it was, and a message stored by
\* an earlier validation is still among messages after the call.
C38_SkippedRulesKeepTheirMessage ==
    [][\A e \in EventTypeInputs :
          (Validate(e) /\ ~IsNull(fc.validation)) =>
              LET validation == Get(fc.validation)
                  skipped(rule) == \/ holdForSure(fc.holdValidation, e)
                                   \/ ~shouldValidate(fc, rule, e)
              IN  /\ (requiredIsTruthy(validation.required) /\ skipped(requiredRule(fc)))
                        => /\ fc'.requiredMessage = fc.requiredMessage
                           /\ InMessages(fc', fc.requiredMessage)
                  /\ \A i \in DOMAIN validation.rules :
                        skipped(validation.rules[i])
                            => /\ SlotContent(fc', i) = SlotContent(fc, i)
                               /\ InMessages(fc', SlotContent(fc, i))
      ]_vars

\* The rules run on change and on demand hold their messages and the rule run
\* on touch none, after a validate that failed: an event that runs only one of
\* the two has left the message of the other, stored by an earlier validate.
C38_Witness ==
    /\ ret = "false"
    /\ fc.validation \in TriggerValidationInputs
    /\ ~IsNull(SlotContent(fc, 2))
    /\ IsNull(SlotContent(fc, 3))
    /\ ~IsNull(SlotContent(fc, 4))
    /\ InMessages(fc, SlotContent(fc, 2))
    /\ InMessages(fc, SlotContent(fc, 4))

\* C39: an asynchronous check started before clear(), clearValidated(),
\* reset() or the assignment of validation changes nothing when it settles
\* afterwards, nor when the promise of its call resolves: messages, error and
\* warning stay as they were.
C39_StaleChecksNeverReappear ==
    [][\A i \in DOMAIN calls :
          (/\ ~calls[i].attached
           /\ \/ Resolve(i)
              \/ \E check \in calls[i].pending : Settle(i, check))
            => /\ fc'.messages = fc.messages
               /\ fc'.error = fc.error
               /\ fc'.warning = fc.warning
      ]_vars

\* C40: every listener called by a value assignment or a touch, the checks
\* being synchronous, finds value, touched, changed, error, warning and
\* messages as the operation leaves them.
C40_ListenersSeeFinalState ==
    [][\A v \in {JsNumber(0), JsNumber(1)} :
          /\ SetValue(v) =>
                LET seen == setValue(fc, v).f.seen
                IN  /\ Len(seen) = Len(notified')
                    /\ \A k \in DOMAIN seen : seen[k] = Snapshot(fc')
          /\ Touch(v) =>
                LET seen == touch(fc, v).f.seen
                IN  /\ Len(seen) = Len(notified')
                    /\ \A k \in DOMAIN seen : seen[k] = Snapshot(fc')
      ]_vars

\* An assignment has made the required check fail: the listeners of value, of
\* error and of messages were called.
C40_Witness ==
    /\ fc.error
    /\ ~IsNull(fc.messages)
    /\ \E i, j, k \in DOMAIN notified :
          /\ notified[i].param = "value"
          /\ notified[j].param = "error"
          /\ notified[k].param = "messages"

=============================================================================
